---- MODULE Spec2Model ----
(***************************************************************************)
(* A state-machine model of AlertManager (src/lib/AlertManager.js): the    *)
(* connection manager (connect, _onDispose, checkStatus), the subscription *)
(* multiplexer (subscribeAlerts, subscribeTriggers, the on* push handlers)  *)
(* and the promise chains of the facade operations.                        *)
(*                                                                         *)
(* One action is one synchronous run of JavaScript: a method call up to    *)
(* its return, or one promise continuation (a `.then`/`.catch` callback).  *)
(* The adapter, the instrument lookup service and the timer are the        *)
(* environment: their completions are actions of their own.               *)
(***************************************************************************)
EXTENDS Integers, Sequences, FiniteSets, TLC

\* ---------------------------------------------------------------- bounds

\* connect() invocations made by callers
MaxCallers == 2
\* connection attempts (adapters constructed), line 98
MaxAttempts == 2
\* handles returned by subscribeAlerts/subscribeTriggers
MaxHandles == 3
\* times adapter.subscribeAlerts/subscribeTriggers throws
MaxThrows == 1
\* notifications the transport delivers while their order is recorded
MaxPushes == 3

Callers == 1..MaxCallers
Attempts == 1..MaxAttempts
Handles == 1..MaxHandles

\* query.user_id and query.alert_system (lines 203-204)
Users == {"u1", "u2"}
Systems == {"s1"}
Keys == Users \X Systems

Kinds == {"alert", "trigger"}
EntryIds == Kinds \X Keys

\* The Event objects an entry of each map holds (lines 211-217, 522-527).
Events(kind) ==
    IF kind = "alert" THEN {"create", "change", "delete", "trigger"}
    ELSE {"create", "change", "delete"}

NoErr == [type |-> "none", op |-> ""]
Err(t, o) == [type |-> t, op |-> o]

VARIABLES
    \* Disposable._disposed of the facade
    disposed,
    \* this._adapter: 0 is null, a is the adapter constructed by attempt a
    adapter,
    \* this._connectPromise: 0 is null, a is the promise of attempt a
    connectPromise,
    \* per attempt: where its promise chain (lines 95-112) stands
    attSt,
    \* per attempt: the error its promise rejected with
    attErr,
    \* per attempt: the state of adapter.connect(jwtProvider) itself
    adConn,
    \* per attempt: adapter.dispose() calls received by its adapter
    adDisposed,
    \* per connect() call: position, the promise it was handed, its outcome
    cPc, cAtt, cErr,
    \* _alertSubscriptionMap / _triggerSubscriptionMap is null
    mapNull,
    \* the map holds an entry map[user_id][alert_system]
    hasEntry,
    \* subscriptionData.subscribers
    subscribers,
    \* subscriptionData.implementationBinding is an undisposed adapter handle
    bindingOpen,
    \* Event._observers of each event of each entry, in registration order
    observers,
    \* per handle returned by a subscribe call: its state and its entry
    hSt, hEntry,
    \* adapter side: open underlying subscriptions, subscribe calls received,
    \* dispose calls received by the handles it returned
    chOpen, subCalls, unsubCalls,
    \* adapter side: subscribe calls that threw
    subThrows,
    \* a subscribe call for the entry was made after one of its handles
    \* had been disposed
    resub,
    \* the facade operation in progress: its name, the index of its next
    \* continuation, its state, the adapter calls and lookups it awaits, the
    \* error it rejected with, the adapter calls and instrument lookups issued
    opName, opPc, opSt, opPending, opErr, opCalls, opLookups,
    \* the operation was invoked with this._adapter set / before the disposal
    opConnAtStart, opBeforeDispose,
    \* a continuation of the operation ran / issued an adapter call after
    \* the disposal of the facade
    opRanAfterDispose, opCallAfterDispose,
    \* a continuation that checks the connection, dispatches or calls the
    \* adapter ran after the disposal of the facade
    opGatedAfterDispose,
    \* alert_state of the object the caller passed to the operation, the
    \* alert_state values the operation placed in local notifications and in
    \* the payloads of its adapter calls
    opArgState, opNotified, opSent,
    \* createAlert and editAlert in detail. The caller's alert object (its
    \* conditions, which the pipeline writes to) and the operands it was
    \* written with
    alert, supplied,
    \* where the createAlert call stands, the error it rejected with, the
    \* createAlert calls the object has been passed to
    caPc, caErr, caRuns,
    \* the lookupInstrument calls of the current createAlert call, in order
    instrumentLookups,
    \* per condition: the lookup its callback is chained on (0 for none) and
    \* the state of its validatePromise
    condLookup, condSt,
    \* adapter calls issued by the current createAlert or editAlert call
    caCalls,
    \* where the editAlert call stands, the error it rejected with before
    \* the create, and whether the server holds the alert
    edPc, edErr, exists,
    \* the notifications the transport has delivered to the handlers, in
    \* order, and per handle the notifications its callbacks were invoked with
    pushed, received,
    \* the arguments and the result of the last getPropertyTree call, and the
    \* calls made with these arguments
    treeProperties, treeShort, tree, treeCalls,
    \* output of the current step when it is a subscribe call: the error
    \* thrown, "ok" when it returned a handle (NoErr otherwise)
    subResult,
    \* output of the current step when it is a push handler: the
    \* notification and the callbacks invoked, in order (NoFire otherwise)
    fired,
    \* output of the current step when it is the dispose of a handle: the
    \* handle had been disposed before (FALSE otherwise)
    redisposed

connVars == <<disposed, adapter, connectPromise, attSt, attErr, adConn,
              adDisposed, cPc, cAtt, cErr, mapNull>>
subVars == <<hasEntry, subscribers, bindingOpen, observers, hSt, hEntry,
             chOpen, subCalls, unsubCalls, subThrows, resub>>
chainVars == <<opName, opPc, opSt, opPending, opErr, opCalls, opLookups,
               opConnAtStart, opBeforeDispose, opRanAfterDispose,
               opCallAfterDispose, opGatedAfterDispose, opArgState,
               opNotified, opSent>>
caVars == <<alert, supplied, caPc, caErr, caRuns, instrumentLookups, condLookup,
            condSt, caCalls, edPc, edErr, exists>>
auxVars == <<pushed, received, treeProperties, treeShort, tree, treeCalls>>
opVars == <<chainVars, caVars, auxVars>>
vars == <<connVars, subVars, opVars, subResult, fired, redisposed>>

NoFire == [kind |-> "none", event |-> "none", key |-> <<"", "">>,
           present |-> FALSE, invoked |-> <<>>, threw |-> FALSE]

Init ==
    /\ disposed = FALSE
    /\ adapter = 0
    /\ connectPromise = 0
    /\ attSt = [a \in Attempts |-> "none"]
    /\ attErr = [a \in Attempts |-> "none"]
    /\ adConn = [a \in Attempts |-> "none"]
    /\ adDisposed = [a \in Attempts |-> 0]
    /\ cPc = [c \in Callers |-> "idle"]
    /\ cAtt = [c \in Callers |-> 0]
    /\ cErr = [c \in Callers |-> NoErr]
    /\ mapNull = [k \in Kinds |-> FALSE]
    /\ hasEntry = [e \in EntryIds |-> FALSE]
    /\ subscribers = [e \in EntryIds |-> 0]
    /\ bindingOpen = [e \in EntryIds |-> FALSE]
    /\ observers = [e \in EntryIds |-> [ev \in Events(e[1]) |-> <<>>]]
    /\ hSt = [h \in Handles |-> "unused"]
    /\ hEntry = [h \in Handles |-> <<"none", <<"", "">>>>]
    /\ chOpen = [e \in EntryIds |-> 0]
    /\ subCalls = [e \in EntryIds |-> 0]
    /\ unsubCalls = [e \in EntryIds |-> 0]
    /\ subThrows = [e \in EntryIds |-> 0]
    /\ resub = [e \in EntryIds |-> FALSE]
    /\ opName = "none"
    /\ opPc = 0
    /\ opSt = "idle"
    /\ opPending = 0
    /\ opErr = NoErr
    /\ opCalls = 0
    /\ opLookups = 0
    /\ opConnAtStart = FALSE
    /\ opBeforeDispose = FALSE
    /\ opRanAfterDispose = FALSE
    /\ opCallAfterDispose = FALSE
    /\ opGatedAfterDispose = FALSE
    /\ opArgState = "Inactive"
    /\ opNotified = {}
    /\ opSent = {}
    /\ alert = <<>>
    /\ supplied = <<>>
    /\ caPc = "idle"
    /\ caErr = [type |-> "none", op |-> "", index |-> 0 - 1]
    /\ caRuns = 0
    /\ instrumentLookups = <<>>
    /\ condLookup = <<>>
    /\ condSt = <<>>
    /\ caCalls = [getProperties |-> 0, getOperators |-> 0, createAlert |-> 0,
                  deleteAlert |-> 0]
    /\ edPc = "idle"
    /\ edErr = [type |-> "none", op |-> "", index |-> 0 - 1]
    /\ exists = FALSE
    /\ pushed = <<>>
    /\ received = [h \in Handles |-> <<>>]
    /\ treeProperties = <<>>
    /\ treeShort = FALSE
    /\ tree = [defined |-> FALSE, items |-> <<>>]
    /\ treeCalls = 0
    /\ subResult = NoErr
    /\ fired = NoFire
    /\ redisposed = FALSE

\* A step that is neither a subscribe call nor a push handler.
Quiet == subResult' = NoErr /\ fired' = NoFire /\ redisposed' = FALSE

\* ------------------------------------------------------ precondition checks

\* checkDispose that misses the disposal.
checkDisposeNever(operation) == NoErr

\* checkDispose (lines 1096-1100): the error thrown, NoErr when none.
checkDispose(operation) ==
    IF disposed THEN Err("disposed", operation) ELSE NoErr

\* checkStatus without the test of this._adapter.
checkStatusDisposeOnly(operation) == checkDispose(operation)

\* checkStatus (lines 1102-1108)
checkStatus(operation) ==
    IF checkDispose(operation) # NoErr THEN checkDispose(operation)
    ELSE IF adapter = 0 THEN Err("notConnected", operation)
    ELSE NoErr

\* ------------------------------------------------------------------ connect

\* Attempts whose promise has been created (line 95).
UsedAttempts == {a \in Attempts : attSt[a] # "none"}

\* The first continuation of connect (lines 89-93): the argument check, then
\* checkDispose. jwtOk: the argument is a JwtProvider.
connect(c, jwtOk) ==
    /\ cPc[c] = "idle"
    /\ IF ~jwtOk
       THEN /\ cPc' = [cPc EXCEPT ![c] = "rejected"]
            /\ cErr' = [cErr EXCEPT ![c] = Err("argument", "connect")]
       ELSE IF checkDispose("connect") # NoErr
       THEN /\ cPc' = [cPc EXCEPT ![c] = "rejected"]
            /\ cErr' = [cErr EXCEPT ![c] = checkDispose("connect")]
       ELSE /\ cPc' = [cPc EXCEPT ![c] = "then2"]
            /\ cErr' = cErr
    /\ UNCHANGED <<disposed, adapter, connectPromise, attSt, attErr, adConn,
                   adDisposed, cAtt, mapNull, subVars>>
    /\ Quiet
    /\ UNCHANGED opVars

\* connect that never reuses the memoized promise.
NeedsAttemptAlways == TRUE

\* Line 94: a new attempt is made when no promise is memoized.
NeedsAttempt == connectPromise = 0

\* The promise the second continuation returns (line 115): the memoized one,
\* or that of a new attempt.
connectTarget ==
    IF NeedsAttempt THEN Cardinality(UsedAttempts) + 1 ELSE connectPromise

\* The second continuation of connect (lines 93-116).
connectThen(c) ==
    /\ cPc[c] = "then2"
    /\ connectTarget \in Attempts
    /\ IF NeedsAttempt
       THEN attSt' = [attSt EXCEPT ![connectTarget] = "queued"]
       ELSE attSt' = attSt
    /\ connectPromise' = connectTarget
    /\ cAtt' = [cAtt EXCEPT ![c] = connectTarget]
    /\ cPc' = [cPc EXCEPT ![c] = "waiting"]
    /\ UNCHANGED <<disposed, adapter, attErr, adConn, adDisposed, cErr,
                   mapNull, subVars>>
    /\ Quiet
    /\ UNCHANGED opVars

\* alertAdapterPromise's continuation (lines 96-101): the adapter is
\* constructed, adapter.connect is issued and the 10 s timer is armed.
attemptStart(a) ==
    /\ attSt[a] = "queued"
    /\ attSt' = [attSt EXCEPT ![a] = "connecting"]
    /\ adConn' = [adConn EXCEPT ![a] = "pending"]
    /\ UNCHANGED <<disposed, adapter, connectPromise, attErr, adDisposed,
                   cPc, cAtt, cErr, mapNull, subVars>>
    /\ Quiet
    /\ UNCHANGED opVars

\* A promise.timeout that lets a late adapter.connect settle the promise
\* again after the timer has fired.
adapterConnectResolveLate(a) ==
    /\ adConn[a] = "pending"
    /\ adConn' = [adConn EXCEPT ![a] = "connected"]
    /\ attSt' = [attSt EXCEPT ![a] = "fulfilled"]
    /\ UNCHANGED <<disposed, adapter, connectPromise, attErr, adDisposed,
                   cPc, cAtt, cErr, mapNull, subVars>>
    /\ Quiet
    /\ UNCHANGED opVars

\* adapter.connect resolves. promise.timeout (line 100) settles with it only
\* when the timer has not fired before.
adapterConnectResolve(a) ==
    /\ adConn[a] = "pending"
    /\ adConn' = [adConn EXCEPT ![a] = "connected"]
    /\ IF attSt[a] = "connecting"
       THEN attSt' = [attSt EXCEPT ![a] = "fulfilled"]
       ELSE attSt' = attSt
    /\ UNCHANGED <<disposed, adapter, connectPromise, attErr, adDisposed,
                   cPc, cAtt, cErr, mapNull, subVars>>
    /\ Quiet
    /\ UNCHANGED opVars

\* adapter.connect rejects.
adapterConnectReject(a) ==
    /\ adConn[a] = "pending"
    /\ adConn' = [adConn EXCEPT ![a] = "failed"]
    /\ IF attSt[a] = "connecting"
       THEN /\ attSt' = [attSt EXCEPT ![a] = "failed"]
            /\ attErr' = [attErr EXCEPT ![a] = "adapter"]
       ELSE UNCHANGED <<attSt, attErr>>
    /\ UNCHANGED <<disposed, adapter, connectPromise, adDisposed,
                   cPc, cAtt, cErr, mapNull, subVars>>
    /\ Quiet
    /\ UNCHANGED opVars

\* The 10 s timer of promise.timeout fires first (line 100).
connectTimeout(a) ==
    /\ attSt[a] = "connecting"
    /\ adConn[a] = "pending"
    /\ attSt' = [attSt EXCEPT ![a] = "failed"]
    /\ attErr' = [attErr EXCEPT ![a] = "timeout"]
    /\ UNCHANGED <<disposed, adapter, connectPromise, adConn, adDisposed,
                   cPc, cAtt, cErr, mapNull, subVars>>
    /\ Quiet
    /\ UNCHANGED opVars

\* The fulfilment continuation of _connectPromise (lines 104-108).
connectResolved(a) ==
    /\ attSt[a] = "fulfilled"
    /\ adapter' = a
    /\ attSt' = [attSt EXCEPT ![a] = "resolved"]
    /\ UNCHANGED <<disposed, connectPromise, attErr, adConn, adDisposed,
                   cPc, cAtt, cErr, mapNull, subVars>>
    /\ Quiet
    /\ UNCHANGED opVars

\* A rejection continuation that starts the next attempt by itself.
connectRejectedRetries(a) ==
    LET next == Cardinality(UsedAttempts) + 1 IN
    /\ attSt[a] = "failed"
    /\ IF next \in Attempts
       THEN /\ connectPromise' = next
            /\ attSt' = [attSt EXCEPT ![a] = "rejected", ![next] = "queued"]
       ELSE /\ connectPromise' = 0
            /\ attSt' = [attSt EXCEPT ![a] = "rejected"]
    /\ UNCHANGED <<disposed, adapter, attErr, adConn, adDisposed,
                   cPc, cAtt, cErr, mapNull, subVars>>
    /\ Quiet
    /\ UNCHANGED opVars

\* A rejection continuation that rethrows without clearing the memoized
\* promise.
connectRejectedKeepsPromise(a) ==
    /\ attSt[a] = "failed"
    /\ attSt' = [attSt EXCEPT ![a] = "rejected"]
    /\ UNCHANGED <<disposed, adapter, connectPromise, attErr, adConn,
                   adDisposed, cPc, cAtt, cErr, mapNull, subVars>>
    /\ Quiet
    /\ UNCHANGED opVars

\* The rejection continuation of _connectPromise (lines 108-112).
connectRejected(a) ==
    /\ attSt[a] = "failed"
    /\ connectPromise' = 0
    /\ attSt' = [attSt EXCEPT ![a] = "rejected"]
    /\ UNCHANGED <<disposed, adapter, attErr, adConn, adDisposed,
                   cPc, cAtt, cErr, mapNull, subVars>>
    /\ Quiet
    /\ UNCHANGED opVars

\* The promise connect returned to caller c settles (line 115): the caller
\* observes the outcome of the promise it was handed.
connectSettle(c) ==
    /\ cPc[c] = "waiting"
    /\ attSt[cAtt[c]] \in {"resolved", "rejected"}
    /\ IF attSt[cAtt[c]] = "resolved"
       THEN /\ cPc' = [cPc EXCEPT ![c] = "resolved"]
            /\ cErr' = cErr
       ELSE /\ cPc' = [cPc EXCEPT ![c] = "rejected"]
            /\ cErr' = [cErr EXCEPT ![c] = Err(attErr[cAtt[c]], "connect")]
    /\ UNCHANGED <<disposed, adapter, connectPromise, attSt, attErr, adConn,
                   adDisposed, cAtt, mapNull, subVars>>
    /\ Quiet
    /\ UNCHANGED opVars

\* ------------------------------------------------------------------ dispose

\* _onDispose that disposes the adapter and keeps the reference to it.
onDisposeKeepsAdapter ==
    /\ ~disposed
    /\ disposed' = TRUE
    /\ IF adapter # 0
       THEN adDisposed' = [adDisposed EXCEPT ![adapter] = @ + 1]
       ELSE UNCHANGED adDisposed
    /\ mapNull' = [mapNull EXCEPT !["alert"] = TRUE]
    /\ UNCHANGED <<adapter, connectPromise, attSt, attErr, adConn, cPc, cAtt,
                   cErr, subVars>>
    /\ Quiet
    /\ UNCHANGED opVars

\* Disposable.dispose of the facade: _onDispose (lines 1058-1065) runs once.
\* Only _alertSubscriptionMap is set to null.
onDispose ==
    /\ ~disposed
    /\ disposed' = TRUE
    /\ IF adapter # 0
       THEN /\ adDisposed' = [adDisposed EXCEPT ![adapter] = @ + 1]
            /\ adapter' = 0
       ELSE UNCHANGED <<adDisposed, adapter>>
    /\ mapNull' = [mapNull EXCEPT !["alert"] = TRUE]
    /\ UNCHANGED <<connectPromise, attSt, attErr, adConn, cPc, cAtt, cErr, subVars>>
    /\ Quiet
    /\ UNCHANGED opVars

\* ---------------------------------------------------------------- subscribe

\* The handle the next successful subscribe call returns.
NextHandle == CHOOSE h \in Handles :
    /\ hSt[h] = "unused"
    /\ \A g \in Handles : g < h => hSt[g] # "unused"

\* The function a subscribe call passed as its <cb>Callback argument.
Callback(h, cb) == [h |-> h, cb |-> cb]

\* An Event.register that puts the newest callback in front of the others.
RegisterFirst(obs, kind, h) ==
    [ev \in Events(kind) |-> <<Callback(h, ev)>> \o obs[ev]]

\* Event.register of each callback against its event (lines 228-231,
\* 538-540): the callback is appended to the event's observers.
Register(obs, kind, h) ==
    [ev \in Events(kind) |-> Append(obs[ev], Callback(h, ev))]

\* A disposal that forgets every registration but the createEvent one.
UnregisterCreateOnly(obs, kind, h) ==
    [ev \in Events(kind) |->
        IF ev = "create"
        THEN SelectSeq(obs[ev], LAMBDA x : x # Callback(h, ev))
        ELSE obs[ev]]

\* The registrations' dispose (lines 240-243, 549-551): the callbacks this
\* call registered are removed from the observers of their events.
Unregister(obs, kind, h) ==
    [ev \in Events(kind) |->
        SelectSeq(obs[ev], LAMBDA x : x # Callback(h, ev))]

RECURSIVE SumOver(_, _)
SumOver(f, S) ==
    IF S = {} THEN 0
    ELSE LET x == CHOOSE y \in S : TRUE IN f[x] + SumOver(f, S \ {x})

\* Subscribe calls the adapter has answered by throwing.
TotalThrows == SumOver(subThrows, EntryIds)

\* A subscribe call that opens an underlying subscription every time.
NeedsBindingAlways(e) == TRUE

\* Lines 222-224, 532-534: the underlying subscription is opened when the
\* entry has no subscriber.
NeedsBinding(e) == subscribers[e] = 0

\* A subscribe call that counts the subscriber before it calls the adapter.
adapterSubscribeThrowsCounted(e, operation) ==
    /\ TotalThrows < MaxThrows
    /\ hasEntry' = [hasEntry EXCEPT ![e] = TRUE]
    /\ subCalls' = [subCalls EXCEPT ![e] = @ + 1]
    /\ subThrows' = [subThrows EXCEPT ![e] = @ + 1]
    /\ subscribers' = [subscribers EXCEPT ![e] = @ + 1]
    /\ subResult' = Err("adapter", operation)
    /\ UNCHANGED <<bindingOpen, observers, hSt, hEntry, chOpen, unsubCalls,
                   resub>>

\* Lines 222-224, 532-534 when adapter.subscribeAlerts / subscribeTriggers
\* throws: the entry exists by then (lines 206-218), the call ends before the
\* count is raised (line 226) and before the callbacks are registered.
adapterSubscribeThrows(e, operation) ==
    /\ TotalThrows < MaxThrows
    /\ hasEntry' = [hasEntry EXCEPT ![e] = TRUE]
    /\ subCalls' = [subCalls EXCEPT ![e] = @ + 1]
    /\ subThrows' = [subThrows EXCEPT ![e] = @ + 1]
    /\ subResult' = Err("adapter", operation)
    /\ UNCHANGED <<subscribers, bindingOpen, observers, hSt, hEntry,
                   chOpen, unsubCalls, resub>>

\* The body shared by subscribeAlerts (lines 193-245) and subscribeTriggers
\* (lines 505-553). queryOk: the validator accepts the query; cbOk: every
\* callback argument is a function; adapterThrows: adapter.subscribe* throws.
Subscribe(kind, operation, key, queryOk, cbOk, adapterThrows) ==
    LET e == <<kind, key>>
        h == NextHandle
    IN
    IF checkStatus(operation) # NoErr
    THEN /\ subResult' = checkStatus(operation)
         /\ UNCHANGED <<hasEntry, subscribers, bindingOpen, observers, hSt,
                        hEntry, chOpen, subCalls, unsubCalls, subThrows,
                        resub>>
    ELSE IF ~queryOk \/ ~cbOk
    THEN /\ subResult' =
                Err(IF ~queryOk THEN "validation" ELSE "argument", operation)
         /\ UNCHANGED <<hasEntry, subscribers, bindingOpen, observers, hSt,
                        hEntry, chOpen, subCalls, unsubCalls, subThrows,
                        resub>>
    ELSE IF mapNull[kind]
    THEN /\ subResult' = Err("TypeError", operation)
         /\ UNCHANGED <<hasEntry, subscribers, bindingOpen, observers, hSt,
                        hEntry, chOpen, subCalls, unsubCalls, subThrows,
                        resub>>
    ELSE IF NeedsBinding(e) /\ adapter = 0
    THEN /\ hasEntry' = [hasEntry EXCEPT ![e] = TRUE]
         /\ subResult' = Err("TypeError", operation)
         /\ UNCHANGED <<subscribers, bindingOpen, observers, hSt, hEntry,
                        chOpen, subCalls, unsubCalls, subThrows, resub>>
    ELSE IF NeedsBinding(e) /\ adapterThrows
    THEN adapterSubscribeThrows(e, operation)
    ELSE /\ \E g \in Handles : hSt[g] = "unused"
         /\ hasEntry' = [hasEntry EXCEPT ![e] = TRUE]
         /\ IF NeedsBinding(e)
            THEN /\ subCalls' = [subCalls EXCEPT ![e] = @ + 1]
                 /\ chOpen' = [chOpen EXCEPT ![e] = @ + 1]
                 /\ bindingOpen' = [bindingOpen EXCEPT ![e] = TRUE]
            ELSE UNCHANGED <<subCalls, chOpen, bindingOpen>>
         /\ subscribers' = [subscribers EXCEPT ![e] = @ + 1]
         /\ observers' = [observers EXCEPT ![e] = Register(@, kind, h)]
         /\ hSt' = [hSt EXCEPT ![h] = "live"]
         /\ hEntry' = [hEntry EXCEPT ![h] = e]
         /\ resub' = [resub EXCEPT ![e] =
                @ \/ \E g \in Handles : hSt[g] = "disposed" /\ hEntry[g] = e]
         /\ subResult' = Err("ok", operation)
         /\ UNCHANGED <<unsubCalls, subThrows>>

\* subscribeAlerts (lines 193-245)
subscribeAlerts(key, queryOk, cbOk, adapterThrows) ==
    /\ Subscribe("alert", "subscribe alerts", key, queryOk, cbOk, adapterThrows)
    /\ fired' = NoFire
    /\ redisposed' = FALSE
    /\ UNCHANGED <<connVars, opVars>>

\* subscribeTriggers (lines 505-553)
subscribeTriggers(key, queryOk, cbOk, adapterThrows) ==
    /\ Subscribe("trigger", "subscribe triggers", key, queryOk, cbOk,
                 adapterThrows)
    /\ fired' = NoFire
    /\ redisposed' = FALSE
    /\ UNCHANGED <<connVars, opVars>>

\* A disposal that closes the underlying subscription one subscriber early.
ReleasesBindingEarly(count) == count = 1

\* Lines 236-238, 545-547: the underlying subscription is closed when the
\* count reaches zero.
ReleasesBinding(count) == count = 0

\* The action of the Disposable a subscribe call returned (lines 233-244,
\* 542-552). Disposable.dispose runs its action once: a second dispose of the
\* same handle does nothing.
DisposeAction(h) ==
    LET e == hEntry[h]
        count == subscribers[e] - 1
    IN
    /\ subscribers' = [subscribers EXCEPT ![e] = count]
    /\ IF ReleasesBinding(count)
       THEN /\ unsubCalls' = [unsubCalls EXCEPT ![e] = @ + 1]
            /\ bindingOpen' = [bindingOpen EXCEPT ![e] = FALSE]
            /\ chOpen' = [chOpen EXCEPT ![e] =
                    IF bindingOpen[e] THEN @ - 1 ELSE @]
       ELSE UNCHANGED <<unsubCalls, bindingOpen, chOpen>>
    /\ observers' = [observers EXCEPT ![e] = Unregister(@, e[1], h)]
    /\ hSt' = [hSt EXCEPT ![h] = "disposed"]
    /\ UNCHANGED <<hasEntry, hEntry, subCalls, subThrows, resub>>

\* A Disposable that runs its action on every dispose call.
RunsActionAgain(h) == TRUE

\* Disposable.dispose (the handles of lines 233 and 542): the action runs
\* when the handle has not been disposed before.
RunsAction(h) == hSt[h] = "live"

\* dispose() of a handle returned by subscribeAlerts (lines 233-244)
disposeAlertSubscription(h) ==
    /\ hSt[h] # "unused"
    /\ hEntry[h][1] = "alert"
    /\ IF RunsAction(h) THEN DisposeAction(h) ELSE UNCHANGED subVars
    /\ redisposed' = (hSt[h] = "disposed")
    /\ subResult' = NoErr
    /\ fired' = NoFire
    /\ UNCHANGED <<connVars, opVars>>

\* dispose() of a handle returned by subscribeTriggers (lines 542-552)
disposeTriggerSubscription(h) ==
    /\ hSt[h] # "unused"
    /\ hEntry[h][1] = "trigger"
    /\ IF RunsAction(h) THEN DisposeAction(h) ELSE UNCHANGED subVars
    /\ redisposed' = (hSt[h] = "disposed")
    /\ subResult' = NoErr
    /\ fired' = NoFire
    /\ UNCHANGED <<connVars, opVars>>

\* Handles of entry e in state st, in the order the subscribe calls returned
\* them.
HandlesOf(e, st) == {h \in Handles : hSt[h] = st /\ hEntry[h] = e}
IssuedOf(e) == {h \in Handles : hSt[h] # "unused" /\ hEntry[h] = e}

\* ----------------------------------------------------------- push handlers

\* getMutationEvents (lines 1079-1094): the entry of the payload's key, or
\* "null". On a null map, map.hasOwnProperty throws a TypeError ("throws").
getMutationEvents(kind, key) ==
    IF mapNull[kind] THEN "throws"
    ELSE IF key \in Keys /\ hasEntry[<<kind, key>>] THEN "entry"
    ELSE "null"

\* An Event.fire over one map shared by the two kinds of subscription.
FireBothKinds(kind, event, key) ==
    LET other == IF kind = "alert" THEN "trigger" ELSE "alert" IN
    observers[<<kind, key>>][event]
        \o (IF event \in Events(other) THEN observers[<<other, key>>][event]
            ELSE <<>>)

\* An Event.fire that goes over its observers twice.
FireTwice(kind, event, key) ==
    observers[<<kind, key>>][event] \o observers[<<kind, key>>][event]

\* A handler that fires the entry's changeEvent whatever the notification.
FireChangeEvent(kind, event, key) == observers[<<kind, key>>]["change"]

\* Event.fire: the callbacks the event invokes, in order.
Fire(kind, event, key) == observers[<<kind, key>>][event]

\* The body shared by the seven push handlers (lines 1110-1192). present:
\* the payload is an object (a non-empty array for triggers).
Dispatch(kind, event, key, present) ==
    fired' =
        [kind |-> kind, event |-> event, key |-> key, present |-> present,
         invoked |-> IF present /\ getMutationEvents(kind, key) = "entry"
                     THEN Fire(kind, event, key) ELSE <<>>,
         threw |-> present /\ getMutationEvents(kind, key) = "throws"]

\* The handlers are bound into the adapter when it is constructed (line 98).
AdapterExists == \E a \in Attempts : adConn[a] # "none"

onAlertCreated(key, present) ==
    /\ AdapterExists
    /\ Dispatch("alert", "create", key, present)
    /\ subResult' = NoErr
    /\ redisposed' = FALSE
    /\ UNCHANGED <<connVars, subVars, opVars>>

onAlertMutated(key, present) ==
    /\ AdapterExists
    /\ Dispatch("alert", "change", key, present)
    /\ subResult' = NoErr
    /\ redisposed' = FALSE
    /\ UNCHANGED <<connVars, subVars, opVars>>

onAlertDeleted(key, present) ==
    /\ AdapterExists
    /\ Dispatch("alert", "delete", key, present)
    /\ subResult' = NoErr
    /\ redisposed' = FALSE
    /\ UNCHANGED <<connVars, subVars, opVars>>

onAlertTriggered(key, present) ==
    /\ AdapterExists
    /\ Dispatch("alert", "trigger", key, present)
    /\ subResult' = NoErr
    /\ redisposed' = FALSE
    /\ UNCHANGED <<connVars, subVars, opVars>>

onTriggersCreated(key, present) ==
    /\ AdapterExists
    /\ Dispatch("trigger", "create", key, present)
    /\ subResult' = NoErr
    /\ redisposed' = FALSE
    /\ UNCHANGED <<connVars, subVars, opVars>>

onTriggersMutated(key, present) ==
    /\ AdapterExists
    /\ Dispatch("trigger", "change", key, present)
    /\ subResult' = NoErr
    /\ redisposed' = FALSE
    /\ UNCHANGED <<connVars, subVars, opVars>>

onTriggersDeleted(key, present) ==
    /\ AdapterExists
    /\ Dispatch("trigger", "delete", key, present)
    /\ subResult' = NoErr
    /\ redisposed' = FALSE
    /\ UNCHANGED <<connVars, subVars, opVars>>

\* ---------------------------------------------------------- getPropertyTree

\* properties in the list passed to getPropertyTree
MaxProperties == 3
\* getPropertyTree calls made with one list
MaxTreeCalls == 2

\* A property as far as getPropertyTree reads it: its category path, its
\* two descriptions ("" for a property without description) and its numeric
\* sort order.
Categories == {<<>>, <<"A">>, <<"A", "X">>}
Descriptions == {"", "X", "Y"}
ShortDescriptions == {"S", "Y"}
SortOrders == {1, 2}
Properties ==
    [category : Categories, description : Descriptions,
     descriptionShort : ShortDescriptions, sortOrder : SortOrders]
PropertyLists == UNION {[1..n -> Properties] : n \in 0..MaxProperties}

\* String.localeCompare on the descriptions above: negative, zero or
\* positive as a sorts before, with or after b.
Alphabet == <<"", "A", "S", "X", "Y">>
localeCompare(a, b) ==
    (CHOOSE i \in DOMAIN Alphabet : Alphabet[i] = a)
        - (CHOOSE i \in DOMAIN Alphabet : Alphabet[i] = b)

\* Lines 896-900: the description the tree is built on.
descriptionSelector(p, short) ==
    IF short THEN p.descriptionShort ELSE p.description

\* Line 903: the category path followed by the description, if it has one.
descriptionPath(property, short) ==
    property.category \o
        (IF descriptionSelector(property, short) = "" THEN <<>>
         ELSE <<descriptionSelector(property, short)>>)

\* Lines 922-925: a new node. items is <<>> while the node has no items
\* array, item is <<>> while the node has no item.
Node(description, sortOrder) ==
    [description |-> description, sortOrder |-> sortOrder, items |-> <<>>,
     item |-> <<>>]

\* Line 936: the object the reduction starts from.
root == Node("", 0)

RECURSIVE Descend(_, _, _, _)
\* Lines 906-933: from segment i of the path on, the child with the
\* segment's description is looked up among the node's items, created with
\* the property's sort order and pushed when there is none, and entered; the
\* node reached at the end of the path gets the property as its item.
Descend(node, path, i, property) ==
    IF i > Len(path) THEN [node EXCEPT !.item = <<property>>]
    ELSE
        LET found == {k \in DOMAIN node.items :
                        node.items[k].description = path[i]}
            items == IF found = {}
                     THEN Append(node.items,
                                 Node(path[i], property.sortOrder))
                     ELSE node.items
            k == IF found = {} THEN Len(items)
                 ELSE CHOOSE x \in found : \A y \in found : x <= y
        IN [node EXCEPT !.items =
                [items EXCEPT ![k] = Descend(items[k], path, i + 1, property)]]

RECURSIVE Reduce(_, _, _)
\* properties.reduce (lines 902-936)
Reduce(tree0, properties, short) ==
    IF properties = <<>> THEN tree0
    ELSE Reduce(Descend(tree0, descriptionPath(Head(properties), short), 1,
                        Head(properties)),
                Tail(properties), short)

\* A comparator that looks at the descriptions only.
compareDescriptions(a, b) == localeCompare(a.description, b.description)

\* The comparator of lines 943-951.
compare(a, b) ==
    IF a.sortOrder - b.sortOrder # 0 THEN a.sortOrder - b.sortOrder
    ELSE localeCompare(a.description, b.description)

RECURSIVE Sort(_)
\* Array.prototype.sort with the comparator: the items in ascending order,
\* items that compare equal in their former order.
Sort(items) ==
    IF items = <<>> THEN <<>>
    ELSE
        LET s == Sort(SubSeq(items, 1, Len(items) - 1))
            x == items[Len(items)]
            k == Cardinality({i \in DOMAIN s : compare(s[i], x) <= 0})
        IN SubSeq(s, 1, k) \o <<x>> \o SubSeq(s, k + 1, Len(s))

RECURSIVE sortTree(_)
\* sortTree (lines 938-956)
sortTree(node) ==
    LET s == Sort(node.items)
    IN [node EXCEPT !.items = [k \in DOMAIN s |-> sortTree(s[k])]]

\* getPropertyTree (lines 893-961). The result is root.items, which is
\* undefined when no property had a path.
getPropertyTree(properties, short) ==
    LET sorted == sortTree(Reduce(root, properties, short))
    IN [defined |-> sorted.items # <<>>, items |-> sorted.items]

\* A caller passes a list to getPropertyTree.
callGetPropertyTree(properties, short) ==
    /\ treeCalls = 0
    /\ treeProperties' = properties
    /\ treeShort' = short
    /\ tree' = getPropertyTree(properties, short)
    /\ treeCalls' = 1
    /\ Quiet
    /\ UNCHANGED <<connVars, subVars, chainVars, caVars, pushed, received>>

\* The caller passes the same list again.
callGetPropertyTreeAgain ==
    /\ treeCalls \in 1..(MaxTreeCalls - 1)
    /\ tree' = getPropertyTree(treeProperties, treeShort)
    /\ treeCalls' = treeCalls + 1
    /\ Quiet
    /\ UNCHANGED <<connVars, subVars, chainVars, caVars, pushed, received,
                   treeProperties, treeShort>>

\* ------------------------------------------------- transport and callbacks

RECURSIVE Observe(_, _, _)
\* What the callbacks record when Event.fire invokes them (lines 1117-1119
\* and alike): each invocation appends the notification it was passed, n,
\* to the record of the handle whose subscribe call registered the callback.
Observe(log, invoked, n) ==
    IF invoked = <<>> THEN log
    ELSE Observe([log EXCEPT ![Head(invoked).h] = Append(@, n)],
                 Tail(invoked), n)

\* The transport delivers its next notification to the facade: the handler
\* the adapter was given for it (lines 1110-1192) runs to its end, the
\* callbacks being invoked inside the call, before the transport delivers
\* another one. The notification is numbered, and recorded with the handles
\* undisposed at that moment.
deliver(kind, event, key) ==
    LET n == Len(pushed) + 1 IN
    /\ AdapterExists
    /\ n <= MaxPushes
    /\ Dispatch(kind, event, key, TRUE)
    /\ pushed' = Append(pushed,
            [kind |-> kind, event |-> event, key |-> key,
             live |-> HandlesOf(<<kind, key>>, "live"),
             disposed |-> disposed])
    /\ received' = Observe(received, fired'.invoked, n)
    /\ subResult' = NoErr
    /\ redisposed' = FALSE
    /\ UNCHANGED <<connVars, subVars, chainVars, caVars, treeProperties,
                   treeShort, tree, treeCalls>>

\* --------------------------------------------------------------- operations

\* One continuation of an operation's promise chain:
\*   chk    the name checkStatus is called with ("" when it is not called)
\*   val    a validator runs on the argument
\*   disp   a local notification is dispatched through onAlertMutated
\*   call   the adapter method called on this._adapter ("" for none)
\*   lookup lookupInstrument is called
\*   res    the looked-up instruments are validated and operands normalized
\*   await  the chain then waits for the calls and lookups issued so far
St(chk, val, disp, call, lookup, res, await) ==
    [chk |-> chk, val |-> val, disp |-> disp, call |-> call,
     lookup |-> lookup, res |-> res, await |-> await]

\* check and validate, then one adapter call (lines 126-135 and alike)
CheckThenCall(name, val, method) ==
    << St(name, val, FALSE, "", FALSE, FALSE, FALSE),
       St("", FALSE, FALSE, method, FALSE, FALSE, TRUE) >>

\* check and adapter call in one continuation (lines 684-748)
CheckAndCall(name, method) ==
    << St(name, FALSE, FALSE, method, FALSE, FALSE, TRUE) >>

\* a continuation that neither checks nor calls (lines 152-176, 422-424)
Pure == St("", FALSE, FALSE, "", FALSE, FALSE, FALSE)

\* deleteAlert (lines 373-382)
deleteAlertSteps == CheckThenCall("delete alert", TRUE, "deleteAlert")

\* createAlert (lines 254-342): check and validate; getProperties and
\* getOperators, each with its own check (lines 700-723); the maps and the
\* lookups; the resolution of the conditions; adapter.createAlert.
createAlertSteps ==
    << St("create alert", TRUE, FALSE, "", FALSE, FALSE, FALSE),
       St("get properties", FALSE, FALSE, "getProperties", FALSE, FALSE, FALSE),
       St("get operators", FALSE, FALSE, "getOperators", FALSE, FALSE, TRUE),
       St("", FALSE, FALSE, "", TRUE, FALSE, TRUE),
       St("", FALSE, FALSE, "", FALSE, TRUE, FALSE),
       St("", FALSE, FALSE, "createAlert", FALSE, FALSE, TRUE) >>

\* A transition that notifies once the adapter call has resolved.
TransitionStepsCallFirst(name) ==
    << St(name, TRUE, FALSE, "updateAlert", FALSE, FALSE, TRUE),
       St("", FALSE, TRUE, "", FALSE, FALSE, FALSE) >>

\* enableAlert / disableAlert (lines 391-405, 434-448)
TransitionSteps(name) ==
    << St(name, TRUE, FALSE, "", FALSE, FALSE, FALSE),
       St("", FALSE, TRUE, "updateAlert", FALSE, FALSE, TRUE) >>

\* enableAlerts / disableAlerts (lines 414-425, 457-468)
TransitionAllSteps(name) ==
    << St(name, TRUE, FALSE, "updateAlertsForUser", FALSE, FALSE, TRUE), Pure >>

OpNames ==
    {"retrieveAlert", "retrieveAlerts", "createAlert", "editAlert",
     "deleteAlert", "enableAlert", "enableAlerts", "disableAlert",
     "disableAlerts", "retrieveTriggers", "updateTrigger", "updateTriggers",
     "retrieveTemplates", "createTemplate", "deleteTemplate", "checkSymbol",
     "getTargets", "getProperties", "getOperators", "getModifiers",
     "getPublisherTypes", "getPublisherTypeDefaults",
     "assignPublisherTypeDefault", "getMarketDataConfiguration",
     "assignMarketDataConfiguration", "getServerVersion", "getUser"}

\* The promise chain of each asynchronous operation of the facade.
ProgramOf == [op \in OpNames |->
    CASE op = "retrieveAlert" ->
            CheckThenCall("retrieve alert", TRUE, "retrieveAlert")
      [] op = "retrieveAlerts" ->
            CheckThenCall("retrieve alerts", TRUE, "retrieveAlerts")
                \o <<Pure, Pure, Pure, Pure>>
      [] op = "createAlert" -> createAlertSteps
      [] op = "editAlert" ->
            << St("edit alert", TRUE, FALSE, "", FALSE, FALSE, FALSE) >>
                \o deleteAlertSteps \o createAlertSteps
      [] op = "deleteAlert" -> deleteAlertSteps
      [] op = "enableAlert" -> TransitionSteps("enable alert")
      [] op = "enableAlerts" -> TransitionAllSteps("enable alerts")
      [] op = "disableAlert" -> TransitionSteps("disable alert")
      [] op = "disableAlerts" -> TransitionAllSteps("disable alerts")
      [] op = "retrieveTriggers" ->
            CheckThenCall("retrieve alert triggers", TRUE, "retrieveTriggers")
      [] op = "updateTrigger" ->
            CheckThenCall("updates alert trigger", TRUE, "updateTrigger")
      [] op = "updateTriggers" ->
            CheckThenCall("updates alert triggers", TRUE, "updateTriggers")
      [] op = "retrieveTemplates" ->
            CheckThenCall("get templates", TRUE, "getTemplates")
      [] op = "createTemplate" ->
            CheckThenCall("create template", TRUE, "createTemplate")
      [] op = "deleteTemplate" ->
            CheckThenCall("delete template", TRUE, "deleteTemplate")
      [] op = "checkSymbol" ->
            << St("check symbol", FALSE, FALSE, "", TRUE, FALSE, TRUE),
               St("", TRUE, FALSE, "", FALSE, FALSE, FALSE) >>
      [] op = "getTargets" -> CheckAndCall("get targets", "getTargets")
      [] op = "getProperties" -> CheckAndCall("get properties", "getProperties")
      [] op = "getOperators" -> CheckAndCall("get operators", "getOperators")
      [] op = "getModifiers" -> CheckAndCall("get modifiers", "getModifiers")
      [] op = "getPublisherTypes" ->
            CheckAndCall("get publisher types", "getPublisherTypes")
      [] op = "getPublisherTypeDefaults" ->
            CheckThenCall("get publisher type defaults", TRUE,
                          "getPublisherTypeDefaults")
      [] op = "assignPublisherTypeDefault" ->
            CheckThenCall("assign publisher type default", TRUE,
                          "assignPublisherTypeDefault")
      [] op = "getMarketDataConfiguration" ->
            CheckThenCall("get market data configuration", FALSE,
                          "getMarketDataConfiguration")
      [] op = "assignMarketDataConfiguration" ->
            CheckThenCall("assign market data configuration", FALSE,
                          "assignMarketDataConfiguration")
      [] op = "getServerVersion" ->
            CheckThenCall("get server version", FALSE, "getServerVersion")
      [] op = "getUser" ->
            CheckThenCall("get authenticated user", FALSE, "getUser")]

Program(op) == ProgramOf[op]

\* Lookups one createAlert issues at most (distinct symbols of its conditions)
MaxSymbols == 2

\* The continuation checks the connection, dispatches or calls the adapter.
Gated(st) == st.chk # "" \/ st.disp \/ st.call # ""

\* The error continuation pc of operation op throws, NoErr when it returns.
\* validOk: the validator accepts; resolveOk: every condition resolves; key:
\* the owner and namespace of the alert.
StepError(op, pc, validOk, resolveOk, key) ==
    LET st == Program(op)[pc] IN
    IF st.chk # "" /\ checkStatus(st.chk) # NoErr THEN checkStatus(st.chk)
    ELSE IF st.val /\ ~validOk THEN Err("validation", op)
    ELSE IF st.res /\ ~resolveOk THEN Err("resolution", op)
    ELSE IF st.disp /\ getMutationEvents("alert", key) = "throws"
        THEN Err("TypeError", op)
    ELSE IF st.call # "" /\ adapter = 0 THEN Err("TypeError", op)
    ELSE NoErr

\* The continuation reaches its local dispatch (lines 401, 444).
Dispatches(op, pc, validOk) ==
    LET st == Program(op)[pc] IN
    /\ st.disp
    /\ ~(st.chk # "" /\ checkStatus(st.chk) # NoErr)
    /\ ~(st.val /\ ~validOk)

\* Continuation pc of operation op runs, with `calls`, `lookups` and
\* `pending` what the operation has issued and awaits so far.
RunStep(op, pc, calls, lookups, pending, validOk, resolveOk, key, symbols) ==
    LET st == Program(op)[pc]
        err == StepError(op, pc, validOk, resolveOk, key)
        newCalls == IF st.call # "" THEN 1 ELSE 0
        newLookups == IF st.lookup
                      THEN (IF op = "checkSymbol" THEN 1 ELSE symbols)
                      ELSE 0
        waits == pending + newCalls + newLookups
    IN
    /\ opName' = op
    /\ IF Dispatches(op, pc, validOk)
       THEN Dispatch("alert", "change", key, TRUE)
       ELSE fired' = NoFire
    /\ subResult' = NoErr
    /\ redisposed' = FALSE
    /\ IF err # NoErr
       THEN /\ opSt' = "rejected"
            /\ opErr' = err
            /\ opPc' = pc
            /\ opPending' = 0
            /\ opCalls' = calls
            /\ opLookups' = lookups
            /\ opCallAfterDispose' = IF pc = 1 THEN FALSE ELSE opCallAfterDispose
       ELSE /\ opErr' = NoErr
            /\ opCalls' = calls + newCalls
            /\ opLookups' = lookups + newLookups
            /\ opCallAfterDispose' =
                    ((IF pc = 1 THEN FALSE ELSE opCallAfterDispose)
                        \/ (disposed /\ newCalls > 0))
            /\ IF st.await /\ waits > 0
               THEN /\ opSt' = "awaiting"
                    /\ opPending' = waits
                    /\ opPc' = pc
               ELSE /\ opPending' = waits
                    /\ IF pc = Len(Program(op))
                       THEN opSt' = "resolved" /\ opPc' = pc
                       ELSE opSt' = "ready" /\ opPc' = pc + 1

\* alert_state values of an alert (src/unnamed/part_000, lines 5-11)
AlertStates == {"Inactive", "Starting", "Active", "Stopping", "Triggered"}

\* The operations that request a transition, and the alert_state they write
\* (lines 399 and 403, 421, 442 and 446, 464).
TransitionOps == {"enableAlert", "enableAlerts", "disableAlert", "disableAlerts"}
TransitionState(op) ==
    IF op \in {"enableAlert", "enableAlerts"} THEN "Starting" ELSE "Stopping"

\* A payload that carries no owner and namespace (a Schema.AlertIdentifier).
NoKey == <<"", "">>

\* A clone that is the caller's object itself.
ObjectAssignAlias(target, source) == source

\* Object.assign({ }, alert) (lines 398, 441): the object that receives the
\* fields, a new one.
ObjectAssign(target, source) == target

\* The continuation writes clone.alert_state and the payload of its adapter
\* call: what the operation has notified and sent, and the alert_state of
\* the caller's object.
TransitionEffects(op, pc, validOk, resolveOk, key, notified, sent, argState) ==
    LET st == Program(op)[pc]
        state == TransitionState(op)
    IN
    /\ opNotified' = IF Dispatches(op, pc, validOk)
                     THEN notified \cup {state} ELSE notified
    /\ opSent' = IF /\ op \in TransitionOps
                    /\ st.call # ""
                    /\ StepError(op, pc, validOk, resolveOk, key) = NoErr
                 THEN sent \cup {state} ELSE sent
    /\ opArgState' = IF /\ Dispatches(op, pc, validOk)
                        /\ ObjectAssign("clone", "alert") = "alert"
                     THEN state ELSE argState

\* An operation is invoked; its first continuation runs (it dispatches
\* nothing and resolves no condition).
invoke(op, validOk, argState) ==
    /\ opSt \in {"idle", "resolved", "rejected"}
    /\ RunStep(op, 1, 0, 0, 0, validOk, TRUE, CHOOSE k \in Keys : TRUE, 0)
    /\ TransitionEffects(op, 1, validOk, TRUE, CHOOSE k \in Keys : TRUE,
                         {}, {}, argState)
    /\ UNCHANGED <<caVars, auxVars>>
    /\ opConnAtStart' = (adapter # 0)
    /\ opBeforeDispose' = ~disposed
    /\ opRanAfterDispose' = FALSE
    /\ opGatedAfterDispose' = FALSE
    /\ UNCHANGED <<connVars, subVars>>

\* The next continuation of the operation in progress runs.
continue(validOk, resolveOk, key, symbols) ==
    /\ opSt = "ready"
    /\ RunStep(opName, opPc, opCalls, opLookups, opPending, validOk,
               resolveOk, key, symbols)
    /\ TransitionEffects(opName, opPc, validOk, resolveOk, key, opNotified,
                         opSent, opArgState)
    /\ UNCHANGED <<caVars, auxVars>>
    /\ opRanAfterDispose' = (opRanAfterDispose \/ disposed)
    /\ opGatedAfterDispose' =
            (opGatedAfterDispose \/ (disposed /\ Gated(Program(opName)[opPc])))
    /\ UNCHANGED <<opConnAtStart, opBeforeDispose, connVars, subVars>>

\* An adapter call or an instrument lookup the operation awaits settles.
reply(ok) ==
    /\ opSt = "awaiting"
    /\ opPending > 0
    /\ IF ~ok
       THEN /\ opSt' = "rejected"
            /\ opErr' = Err("rejected", opName)
            /\ opPending' = 0
            /\ opPc' = opPc
       ELSE /\ opErr' = opErr
            /\ opPending' = opPending - 1
            /\ IF opPending > 1
               THEN opSt' = opSt /\ opPc' = opPc
               ELSE IF opPc = Len(Program(opName))
               THEN opSt' = "resolved" /\ opPc' = opPc
               ELSE opSt' = "ready" /\ opPc' = opPc + 1
    /\ Quiet
    /\ UNCHANGED <<opName, opCalls, opLookups, opConnAtStart, opBeforeDispose,
                   opRanAfterDispose, opCallAfterDispose, opGatedAfterDispose,
                   opArgState, opNotified, opSent, caVars, auxVars, connVars, subVars>>

\* ------------------------------------------------------------ price operands

\* c.operator.operand as the caller writes it: a string, here a sequence of
\* characters. "a" stands for any character that is not part of a number.
DigitChars == {"0", "1", "2"}
Chars == DigitChars \cup {",", ".", "-", "a"}

\* longest operand string enumerated
MaxLen == 4

RECURSIVE StringsUpTo(_)
StringsUpTo(n) ==
    IF n = 0 THEN {<<>>}
    ELSE LET shorter == StringsUpTo(n - 1) IN
         shorter \cup {Append(s, c) : s \in {t \in shorter : Len(t) = n - 1},
                                      c \in Chars}

Strings == StringsUpTo(MaxLen)

\* JavaScript values: a string (its characters), a number (counted in
\* thousandths), NaN, undefined, null. Thrown stands for a TypeError thrown
\* in place of a value.
String(s) == [type |-> "string", val |-> s]
Number(n) == [type |-> "number", val |-> n]
NaN == [type |-> "NaN", val |-> 0]
Undefined == [type |-> "undefined", val |-> 0]
Null == [type |-> "null", val |-> 0]
Thrown == [type |-> "TypeError", val |-> 0]

\* is.number: a number that is not NaN
IsNumber(v) == v.type = "number"

\* is.string (line 318)
IsString(v) == v.type = "string"

TenDigits == {"0", "1", "2", "3", "4", "5", "6", "7", "8", "9"}

DigitValue(c) == CASE c = "0" -> 0 [] c = "1" -> 1 [] c = "2" -> 2
                   [] c = "3" -> 3 [] c = "4" -> 4 [] c = "5" -> 5
                   [] c = "6" -> 6 [] c = "7" -> 7 [] c = "8" -> 8
                   [] c = "9" -> 9

AllDigitChars == <<"0", "1", "2", "3", "4", "5", "6", "7", "8", "9">>
DigitChar(n) == AllDigitChars[n + 1]

\* operandToParse.match(/^(-?)([0-9,]+)$/) !== null (line 318)
MatchesInteger(s) ==
    LET body == IF Len(s) > 0 /\ s[1] = "-" THEN Tail(s) ELSE s IN
    /\ Len(body) > 0
    /\ \A i \in 1..Len(body) : body[i] \in DigitChars \cup {","}

\* A normalization that leaves every operand as it is.
operandToParseAsIs(operand) == operand

\* operandToParse (lines 316-320)
operandToParse(operand) ==
    IF IsString(operand) /\ MatchesInteger(operand.val)
    THEN String(operand.val \o <<".", "0">>)
    ELSE operand

\* str.replace(/,/g, '') of the parser
RECURSIVE RemoveSeparators(_)
RemoveSeparators(s) ==
    IF s = <<>> THEN <<>>
    ELSE IF Head(s) = "," THEN RemoveSeparators(Tail(s))
    ELSE <<Head(s)>> \o RemoveSeparators(Tail(s))

\* The longest prefix of s made of digits.
RECURSIVE DigitPrefix(_)
DigitPrefix(s) ==
    IF s = <<>> \/ Head(s) \notin TenDigits
    THEN <<>>
    ELSE <<Head(s)>> \o DigitPrefix(Tail(s))

\* The natural number a string of digits denotes.
RECURSIVE DigitsValue(_)
DigitsValue(s) ==
    IF s = <<>> THEN 0
    ELSE 10 * DigitsValue(SubSeq(s, 1, Len(s) - 1)) + DigitValue(s[Len(s)])

RECURSIVE Pow10(_)
Pow10(n) == IF n = 0 THEN 1 ELSE 10 * Pow10(n - 1)

\* what remains of s after its first n characters
Drop(s, n) == SubSeq(s, n + 1, Len(s))

\* parseInt(str): sign, then the longest prefix of digits; in thousandths.
ParseInt(s) ==
    LET neg == Len(s) > 0 /\ s[1] = "-"
        body == IF neg THEN Tail(s) ELSE s
        digits == DigitPrefix(body)
    IN IF digits = <<>> THEN NaN
       ELSE Number((IF neg THEN -1 ELSE 1) * 1000 * DigitsValue(digits))

\* parseFloat(str): sign, digits, and a fraction after a "."; in thousandths
\* (the strings enumerated have three decimals at most).
ParseFloat(s) ==
    LET neg == Len(s) > 0 /\ s[1] = "-"
        body == IF neg THEN Tail(s) ELSE s
        whole == DigitPrefix(body)
        rest == Drop(body, Len(whole))
        frac == IF Len(rest) > 0 /\ rest[1] = "."
                THEN DigitPrefix(Tail(rest)) ELSE <<>>
        shown == SubSeq(frac, 1, IF Len(frac) < 3 THEN Len(frac) ELSE 3)
    IN IF whole = <<>> /\ frac = <<>> THEN NaN
       ELSE Number((IF neg THEN -1 ELSE 1)
                   * (1000 * DigitsValue(whole)
                      + DigitsValue(shown) * Pow10(3 - Len(shown))))

\* convertBaseCodeToUnitCode of the market data library, for the base codes
\* of the instruments modelled: no decimals ("8") and two decimals ("A").
BaseCodes == {0, 2}
convertBaseCodeToUnitCode(baseCode) == IF baseCode = 0 THEN "8" ELSE "A"
UnitCodes == {convertBaseCodeToUnitCode(b) : b \in BaseCodes}

\* decimals a unit code stands for
Decimals(unitcode) == IF unitcode = "8" THEN 0 ELSE 2

\* valueParser(str, unitcode, ',') of the market data library: the string
\* methods it uses throw a TypeError on a value that is not a string; a
\* string with a "." is a decimal number, any other string is a DDF integer
\* whose decimals the unit code tells.
valueParser(str, unitcode) ==
    IF ~IsString(str) THEN Thrown
    ELSE IF Len(str.val) < 1 THEN Undefined
    ELSE IF str.val = <<"-">> THEN Null
    ELSE LET bare == RemoveSeparators(str.val) IN
         IF \E i \in 1..Len(bare) : bare[i] = "." THEN ParseFloat(bare)
         ELSE LET neg == Len(bare) > 0 /\ bare[1] = "-"
                  body == IF neg THEN Tail(bare) ELSE bare
                  n == ParseInt(body)
              IN IF ~IsNumber(n) THEN NaN
                 ELSE Number((IF neg THEN -1 ELSE 1)
                             * (n.val \div Pow10(Decimals(unitcode))))

\* The decimal digits of a natural number.
RECURSIVE DigitsOf(_)
DigitsOf(n) ==
    IF n < 10 THEN <<DigitChar(n)>>
    ELSE Append(DigitsOf(n \div 10), DigitChar(n % 10))

\* digits with a "," before every group of three
RECURSIVE Grouped(_)
Grouped(digits) ==
    IF Len(digits) <= 3 THEN digits
    ELSE Grouped(SubSeq(digits, 1, Len(digits) - 3)) \o <<",">>
         \o SubSeq(digits, Len(digits) - 2, Len(digits))

\* formatPrice(price, unitcode, '-', false, ',') of the market data library:
\* the decimals of the unit code, rounded, "," between thousands.
formatPrice(price, unitcode) ==
    IF ~IsNumber(price) THEN <<>>
    ELSE LET d == Decimals(unitcode)
             abs == IF price.val < 0 THEN -price.val ELSE price.val
             step == Pow10(3 - d)
             scaled == (abs + step \div 2) \div step
             whole == scaled \div Pow10(d)
             part == scaled % Pow10(d)
             padded == IF d = 0 THEN <<>>
                       ELSE <<".">> \o (IF part < 10 THEN <<"0">> ELSE <<>>)
                            \o DigitsOf(part)
         IN (IF price.val < 0 /\ scaled > 0 THEN <<"-">> ELSE <<>>)
            \o Grouped(DigitsOf(whole)) \o padded

\* ------------------------------------------------------ createAlert pipeline

\* conditions of one alert
MaxConditions == 2
\* createAlert calls made with one alert object
MaxRuns == 2

\* The catalogs the adapter returns (properties.find, operators.find, lines
\* 270 and 278): the fields of a property and of an operator the pipeline
\* reads (lines 288, 315).
PropertyCatalog ==
    [p \in {"last", "volume", "news"} |->
        [target |-> IF p = "news" THEN "other" ELSE "symbol",
         format |-> IF p = "last" THEN "price" ELSE "number"]]
OperatorCatalog ==
    [o \in {"gt", "gtProperty"} |->
        [operand_type |-> "number", operand_literal |-> (o = "gt")]]

\* c.property.target.identifier
Symbols == {"AAPL", "ESZ4"}

\* Operands the conditions of an alert are written with: an integer with a
\* thousands separator, a decimal number, and text no price can be read from.
Operands == {String(<<"1", ",", "2">>), String(<<"1", ".", "2">>),
             String(<<"a">>)}

Condition(property, operator, symbol, operand) ==
    [property |-> property, operator |-> operator, symbol |-> symbol,
     operand |-> operand, operand_display |-> Undefined,
     operand_format |-> Undefined]

\* The conditions a caller writes.
Conditions ==
    {Condition("last", "gt", s, o) : s \in Symbols, o \in Operands}
    \cup {Condition("last", "gtProperty", "AAPL", String(<<"1", ",", "2">>))}
    \cup {Condition("volume", "gt", s, String(<<"1", ",", "2">>)) : s \in Symbols}
    \cup {Condition("news", "gt", "AAPL", String(<<"1", ",", "2">>))}

\* alert.conditions of the alerts a caller passes to createAlert
Alerts == UNION {[1..n -> Conditions] : n \in 1..MaxConditions}

\* line 288 and line 305
HasSymbolTarget(c) == PropertyCatalog[c.property].target = "symbol"

\* line 315
IsPriceLiteral(c) ==
    /\ PropertyCatalog[c.property].format = "price"
    /\ OperatorCatalog[c.operator].operand_type = "number"
    /\ OperatorCatalog[c.operator].operand_literal

\* An error of the pipeline: its kind, the operation name a precondition
\* error carries, and the condition index its message carries (-1 for none).
NoIndex == 0 - 1
CaErr(type, op, index) == [type |-> type, op |-> op, index |-> index]
CaNone == CaErr("none", "", NoIndex)

NoCalls == [getProperties |-> 0, getOperators |-> 0, createAlert |-> 0,
            deleteAlert |-> 0]

\* An instrument map that issues a lookup for every condition.
NeedsLookupAlways(map, symbol) == TRUE

\* !map.hasOwnProperty(symbol) (line 291)
NeedsLookup(map, symbol) == map[symbol] = 0

\* The reduce of lines 285-297 over conditions i..Len(conds): the instrument
\* map (symbol -> index of its lookup, 0 when absent) and the symbols
\* lookupInstrument was called with, in order.
RECURSIVE BuildInstrumentMap(_, _, _, _)
BuildInstrumentMap(conds, i, map, issued) ==
    IF i > Len(conds) THEN [map |-> map, issued |-> issued]
    ELSE LET c == conds[i] IN
         IF HasSymbolTarget(c) /\ NeedsLookup(map, c.symbol)
         THEN BuildInstrumentMap(conds, i + 1,
                                 [map EXCEPT ![c.symbol] = Len(issued) + 1],
                                 Append(issued, c.symbol))
         ELSE BuildInstrumentMap(conds, i + 1, map, issued)

EmptyMap == [s \in Symbols |-> 0]

\* An index that names the first condition of the symbol.
ConditionIndexOfSymbol(conds, i) ==
    (CHOOSE j \in 1..Len(conds) :
        /\ conds[j].symbol = conds[i].symbol
        /\ \A k \in 1..(j - 1) : conds[k].symbol # conds[i].symbol) - 1

\* i of alert.conditions.map((c, i) => ...) (line 299), 0-indexed
ConditionIndex(conds, i) == i - 1

\* An operand_display taken after the operand has been overwritten.
DisplayOfParsed(c, price) == price

\* c.operator.operand_display = c.operator.operand (line 328)
DisplayOf(c, price) == c.operand

\* The callback of lines 309-332 for condition c at position i, given the
\* lookup result: the error thrown (CaNone when it returns) and the
\* condition as the callback leaves it.
ResolveCondition(conds, i, lookup) ==
    LET c == conds[i]
        unitcode == convertBaseCodeToUnitCode(lookup.baseCode)
        price == valueParser(operandToParse(c.operand), unitcode)
    IN
    IF lookup.st = "failed"
        THEN [err |-> CaErr("transport", "", NoIndex), cond |-> c]
    ELSE IF lookup.st = "invalid"
        THEN [err |-> CaErr("instrument", "", NoIndex), cond |-> c]
    ELSE IF ~IsPriceLiteral(c) THEN [err |-> CaNone, cond |-> c]
    ELSE IF price = Thrown
        THEN [err |-> CaErr("TypeError", "", NoIndex), cond |-> c]
    ELSE IF ~IsNumber(price)
        THEN [err |-> CaErr("parse", "", ConditionIndex(conds, i)), cond |-> c]
    ELSE [err |-> CaNone,
          cond |-> [c EXCEPT !.operand_display = DisplayOf(c, price),
                             !.operand_format = String(formatPrice(price, unitcode)),
                             !.operand = price]]

\* A join that ignores the failure of a condition.
RejectCallIgnored(err) == UNCHANGED <<caPc, caErr>>

\* The first failure rejects the call (Promise.all, lines 261 and 299); a
\* later one changes nothing.
RejectCall(err) ==
    IF caPc \in {"resolved", "rejected"}
    THEN UNCHANGED <<caPc, caErr>>
    ELSE caPc' = "rejected" /\ caErr' = err

\* No call on the alert object is in progress.
CallSettled ==
    /\ caPc \in {"idle", "resolved", "rejected"}
    /\ \A i \in 1..Len(condSt) : condSt[i] # "waiting"
    /\ edPc \in {"idle", "rejected", "creating"}

\* A first continuation that fetches the property catalog before it
\* validates.
CreateFirstFetches(validOk) ==
    /\ caRuns' = caRuns + 1
    /\ caCalls' = [caCalls EXCEPT !.getProperties = 1, !.getOperators = 0,
                                  !.createAlert = 0]
    /\ instrumentLookups' = <<>>
    /\ condLookup' = <<>>
    /\ condSt' = <<>>
    /\ IF ~validOk
       THEN /\ caPc' = "rejected"
            /\ caErr' = CaErr("validation", "", NoIndex)
       ELSE /\ caPc' = "validated"
            /\ caErr' = CaNone

\* The first continuation of createAlert (lines 256-260) on the alert object.
CreateFirst(validOk) ==
    /\ caRuns' = caRuns + 1
    /\ caCalls' = [caCalls EXCEPT !.getProperties = 0, !.getOperators = 0,
                                  !.createAlert = 0]
    /\ instrumentLookups' = <<>>
    /\ condLookup' = <<>>
    /\ condSt' = <<>>
    /\ IF checkStatus("create alert") # NoErr
       THEN /\ caPc' = "rejected"
            /\ caErr' = CaErr(checkStatus("create alert").type,
                              "create alert", NoIndex)
       ELSE IF ~validOk
       THEN /\ caPc' = "rejected"
            /\ caErr' = CaErr("validation", "", NoIndex)
       ELSE /\ caPc' = "validated"
            /\ caErr' = CaNone

\* createAlert(alert) with an alert the caller has written (lines 254-260)
createAlert(a, validOk) ==
    /\ CallSettled
    /\ alert' = a
    /\ supplied' = [i \in 1..Len(a) |-> a[i].operand]
    /\ CreateFirst(validOk)
    /\ caRuns = 0
    /\ edPc' = "idle"
    /\ edErr' = CaNone
    /\ exists' = FALSE
    /\ Quiet
    /\ UNCHANGED <<connVars, subVars, chainVars, auxVars>>

\* createAlert(alert) once more with the object an earlier call was given
createAlertAgain(validOk) ==
    /\ CallSettled
    /\ caRuns \in 1..(MaxRuns - 1)
    /\ CreateFirst(validOk)
    /\ edPc' = "idle"
    /\ edErr' = CaNone
    /\ UNCHANGED <<alert, supplied, exists>>
    /\ Quiet
    /\ UNCHANGED <<connVars, subVars, chainVars, auxVars>>

\* Lines 260-264: this.getProperties() and this.getOperators(), each with
\* its own check (lines 700-707, 716-723).
createFetch ==
    /\ caPc = "validated"
    /\ IF checkStatus("get properties") # NoErr
       THEN /\ caPc' = "rejected"
            /\ caErr' = CaErr(checkStatus("get properties").type,
                              "get properties", NoIndex)
            /\ UNCHANGED caCalls
       ELSE /\ caPc' = "catalogs"
            /\ caCalls' = [caCalls EXCEPT !.getProperties = @ + 1,
                                          !.getOperators = @ + 1]
            /\ UNCHANGED caErr
    /\ Quiet
    /\ UNCHANGED <<alert, supplied, instrumentLookups, condLookup, condSt, caRuns,
                   edPc, edErr, exists, connVars, subVars, chainVars, auxVars>>

\* The catalogs arrive (or a fetch fails); lines 265-338 run: the maps, the
\* lookups and a callback per condition chained on its lookup.
catalogReply(ok) ==
    /\ caPc = "catalogs"
    /\ IF ~ok
       THEN /\ caPc' = "rejected"
            /\ caErr' = CaErr("transport", "", NoIndex)
            /\ UNCHANGED <<instrumentLookups, condLookup, condSt>>
       ELSE LET built == BuildInstrumentMap(alert, 1, EmptyMap, <<>>) IN
            /\ instrumentLookups' = [k \in 1..Len(built.issued) |->
                             [symbol |-> built.issued[k], st |-> "pending",
                              baseCode |-> 0]]
            /\ condLookup' = [i \in 1..Len(alert) |->
                                IF HasSymbolTarget(alert[i])
                                THEN built.map[alert[i].symbol] ELSE 0]
            /\ condSt' = [i \in 1..Len(alert) |->
                            IF HasSymbolTarget(alert[i])
                            THEN "waiting" ELSE "ok"]
            /\ caPc' = "resolving"
            /\ UNCHANGED caErr
    /\ Quiet
    /\ UNCHANGED <<alert, supplied, caCalls, caRuns, edPc, edErr, exists,
                   connVars, subVars, chainVars, auxVars>>

\* The instrument service answers lookup k: a valid instrument with its base
\* code, an instrument the validator refuses, or a failure.
lookupSettle(k, st, baseCode) ==
    /\ k \in 1..Len(instrumentLookups)
    /\ instrumentLookups[k].st = "pending"
    /\ instrumentLookups' = [instrumentLookups EXCEPT ![k] = [@ EXCEPT !.st = st,
                                                   !.baseCode = baseCode]]
    /\ Quiet
    /\ UNCHANGED <<alert, supplied, caPc, caErr, condLookup, condSt, caCalls,
                   caRuns, edPc, edErr, exists, connVars, subVars, chainVars, auxVars>>

\* The callback of condition i runs (lines 309-332), after those chained
\* earlier on the same lookup.
resolveCondition(i) ==
    /\ i \in 1..Len(condSt)
    /\ condSt[i] = "waiting"
    /\ instrumentLookups[condLookup[i]].st # "pending"
    /\ \A j \in 1..(i - 1) :
            condLookup[j] = condLookup[i] => condSt[j] # "waiting"
    /\ LET r == ResolveCondition(alert, i, instrumentLookups[condLookup[i]]) IN
       /\ alert' = [alert EXCEPT ![i] = r.cond]
       /\ IF r.err = CaNone
          THEN /\ condSt' = [condSt EXCEPT ![i] = "ok"]
               /\ UNCHANGED <<caPc, caErr>>
          ELSE /\ condSt' = [condSt EXCEPT ![i] = "failed"]
               /\ RejectCall(r.err)
    /\ Quiet
    /\ UNCHANGED <<supplied, instrumentLookups, condLookup, caCalls, caRuns,
                   edPc, edErr, exists, connVars, subVars, chainVars, auxVars>>

\* A join that is satisfied by the first condition that passes.
SomeConditionPasses == \E i \in 1..Len(condSt) : condSt[i] = "ok"

\* Promise.all of line 299 is fulfilled.
AllConditionsPass == \A i \in 1..Len(condSt) : condSt[i] = "ok"

\* Lines 339-341: this._adapter.createAlert(alert)
createSubmit ==
    /\ caPc = "resolving"
    /\ AllConditionsPass
    /\ IF adapter = 0
       THEN /\ caPc' = "rejected"
            /\ caErr' = CaErr("TypeError", "", NoIndex)
            /\ UNCHANGED caCalls
       ELSE /\ caPc' = "submitting"
            /\ caCalls' = [caCalls EXCEPT !.createAlert = @ + 1]
            /\ UNCHANGED caErr
    /\ Quiet
    /\ UNCHANGED <<alert, supplied, instrumentLookups, condLookup, condSt, caRuns,
                   edPc, edErr, exists, connVars, subVars, chainVars, auxVars>>

\* adapter.createAlert settles.
createReply(ok) ==
    /\ caPc = "submitting"
    /\ IF ok
       THEN caPc' = "resolved" /\ exists' = TRUE /\ UNCHANGED caErr
       ELSE /\ caPc' = "rejected"
            /\ caErr' = CaErr("transport", "", NoIndex)
            /\ UNCHANGED exists
    /\ Quiet
    /\ UNCHANGED <<alert, supplied, instrumentLookups, condLookup, condSt, caCalls,
                   caRuns, edPc, edErr, connVars, subVars, chainVars, auxVars>>

\* ---------------------------------------------------------------- editAlert

\* The first continuation of editAlert (lines 355-359), for an alert the
\* server holds.
editAlert(a, validOk) ==
    /\ CallSettled
    /\ caRuns = 0
    /\ alert' = a
    /\ supplied' = [i \in 1..Len(a) |-> a[i].operand]
    /\ exists' = TRUE
    /\ caCalls' = NoCalls
    /\ IF checkStatus("edit alert") # NoErr
       THEN /\ edPc' = "rejected"
            /\ edErr' = CaErr(checkStatus("edit alert").type, "edit alert",
                              NoIndex)
       ELSE IF ~validOk
       THEN edPc' = "rejected" /\ edErr' = CaErr("validation", "", NoIndex)
       ELSE edPc' = "checked" /\ edErr' = CaNone
    /\ Quiet
    /\ UNCHANGED <<caPc, caErr, instrumentLookups, condLookup, condSt, caRuns,
                   connVars, subVars, chainVars, auxVars>>

\* Line 360 calls this.deleteAlert(alert); its first continuation runs
\* (lines 375-379).
editDelete(validOk) ==
    /\ edPc = "checked"
    /\ IF checkStatus("delete alert") # NoErr
       THEN /\ edPc' = "rejected"
            /\ edErr' = CaErr(checkStatus("delete alert").type,
                              "delete alert", NoIndex)
       ELSE IF ~validOk
       THEN edPc' = "rejected" /\ edErr' = CaErr("validation", "", NoIndex)
       ELSE edPc' = "deleteChecked" /\ UNCHANGED edErr
    /\ Quiet
    /\ UNCHANGED <<alert, supplied, caPc, caErr, instrumentLookups, condLookup, condSt,
                   caCalls, caRuns, exists, connVars, subVars, chainVars, auxVars>>

\* Line 380: this._adapter.deleteAlert({alert_id: alert.alert_id})
editDeleteCall ==
    /\ edPc = "deleteChecked"
    /\ IF adapter = 0
       THEN /\ edPc' = "rejected"
            /\ edErr' = CaErr("TypeError", "", NoIndex)
            /\ UNCHANGED caCalls
       ELSE /\ edPc' = "deleting"
            /\ caCalls' = [caCalls EXCEPT !.deleteAlert = @ + 1]
            /\ UNCHANGED edErr
    /\ Quiet
    /\ UNCHANGED <<alert, supplied, caPc, caErr, instrumentLookups, condLookup, condSt,
                   caRuns, exists, connVars, subVars, chainVars, auxVars>>

\* adapter.deleteAlert settles: the server has deleted the alert, or not.
deleteReply(ok) ==
    /\ edPc = "deleting"
    /\ IF ok
       THEN edPc' = "deleted" /\ exists' = FALSE /\ UNCHANGED edErr
       ELSE /\ edPc' = "rejected"
            /\ edErr' = CaErr("transport", "", NoIndex)
            /\ UNCHANGED exists
    /\ Quiet
    /\ UNCHANGED <<alert, supplied, caPc, caErr, instrumentLookups, condLookup, condSt,
                   caCalls, caRuns, connVars, subVars, chainVars, auxVars>>

\* An edit that starts the create without waiting for the delete.
editCreateEarly(validOk) ==
    /\ edPc = "deleting"
    /\ CreateFirst(validOk)
    /\ edPc' = "creating"
    /\ Quiet
    /\ UNCHANGED <<alert, supplied, edErr, exists, connVars, subVars,
                   chainVars, auxVars>>

\* Line 362 calls this.createAlert(alert) once the delete has resolved; its
\* first continuation runs.
editCreate(validOk) ==
    /\ edPc = "deleted"
    /\ CreateFirst(validOk)
    /\ edPc' = "creating"
    /\ Quiet
    /\ UNCHANGED <<alert, supplied, edErr, exists, connVars, subVars,
                   chainVars, auxVars>>

\* ------------------------------------------------------------ specifications

ConnNext ==
    \/ \E c \in Callers, jwtOk \in BOOLEAN : connect(c, jwtOk)
    \/ \E c \in Callers : connectThen(c)
    \/ \E a \in Attempts : attemptStart(a)
    \/ \E a \in Attempts : adapterConnectResolve(a)
    \/ \E a \in Attempts : adapterConnectReject(a)
    \/ \E a \in Attempts : connectTimeout(a)
    \/ \E a \in Attempts : connectResolved(a)
    \/ \E a \in Attempts : connectRejected(a)
    \/ \E c \in Callers : connectSettle(c)
    \/ onDispose

SpecConn == Init /\ [][ConnNext]_vars

\* One caller connects.
ConnectOnce ==
    \/ connect(1, TRUE)
    \/ connectThen(1)
    \/ attemptStart(1)
    \/ adapterConnectResolve(1)
    \/ connectResolved(1)

\* Subscribe calls, disposals of their handles and the disposal of the facade
\* interleave.
SubNext ==
    \/ ConnectOnce
    \/ \E key \in Keys, queryOk, cbOk, adapterThrows \in BOOLEAN :
            subscribeAlerts(key, queryOk, cbOk, adapterThrows)
    \/ \E key \in Keys, queryOk, cbOk, adapterThrows \in BOOLEAN :
            subscribeTriggers(key, queryOk, cbOk, adapterThrows)
    \/ \E h \in Handles : disposeAlertSubscription(h)
    \/ \E h \in Handles : disposeTriggerSubscription(h)
    \/ onDispose

SpecSub == Init /\ [][SubNext]_vars

\* As SubNext with accepted subscribe calls, plus the pushes of the adapter.
PushNext ==
    \/ ConnectOnce
    \/ \E key \in Keys : subscribeAlerts(key, TRUE, TRUE, FALSE)
    \/ \E key \in Keys : subscribeTriggers(key, TRUE, TRUE, FALSE)
    \/ \E h \in Handles : disposeAlertSubscription(h)
    \/ \E h \in Handles : disposeTriggerSubscription(h)
    \/ \E key \in Keys, present \in BOOLEAN : onAlertCreated(key, present)
    \/ \E key \in Keys, present \in BOOLEAN : onAlertMutated(key, present)
    \/ \E key \in Keys, present \in BOOLEAN : onAlertDeleted(key, present)
    \/ \E key \in Keys, present \in BOOLEAN : onAlertTriggered(key, present)
    \/ \E key \in Keys, present \in BOOLEAN : onTriggersCreated(key, present)
    \/ \E key \in Keys, present \in BOOLEAN : onTriggersMutated(key, present)
    \/ \E key \in Keys, present \in BOOLEAN : onTriggersDeleted(key, present)
    \/ onDispose

SpecPush == Init /\ [][PushNext]_vars

\* The operations of the facade against connection and disposal.
OpsNext ==
    \/ ConnectOnce
    \/ \E op \in OpNames, validOk \in BOOLEAN : invoke(op, validOk, "Inactive")
    \/ \E validOk, resolveOk \in BOOLEAN, key \in Keys, symbols \in 0..MaxSymbols :
            continue(validOk, resolveOk, key, symbols)
    \/ \E ok \in BOOLEAN : reply(ok)
    \/ onDispose

SpecOps == Init /\ [][OpsNext]_vars

\* The key the subscribe calls of GateNext are made for.
GateKeys == {<<"u1", "s1">>}

\* The operations and the subscribe calls against connection and disposal.
GateNext ==
    \/ OpsNext
    \/ \E key \in GateKeys, queryOk, cbOk \in BOOLEAN :
            subscribeAlerts(key, queryOk, cbOk, FALSE)
    \/ \E key \in GateKeys, queryOk, cbOk \in BOOLEAN :
            subscribeTriggers(key, queryOk, cbOk, FALSE)

SpecGate == Init /\ [][GateNext]_vars

\* Outcomes of an instrument lookup.
LookupOutcomes ==
    {<<"ok", b>> : b \in BaseCodes} \cup {<<"invalid", 0>>, <<"failed", 0>>}

\* The steps of the createAlert pipeline after its first continuation.
PipelineNext ==
    \/ createFetch
    \/ \E ok \in BOOLEAN : catalogReply(ok)
    \/ \E k \in 1..MaxConditions, o \in LookupOutcomes :
            lookupSettle(k, o[1], o[2])
    \/ \E i \in 1..MaxConditions : resolveCondition(i)
    \/ createSubmit
    \/ \E ok \in BOOLEAN : createReply(ok)

\* createAlert, once or repeatedly with one alert object, against the
\* answers of the adapter and of the instrument service, and disposal.
CreateNext ==
    \/ ConnectOnce
    \/ \E a \in Alerts, validOk \in BOOLEAN : createAlert(a, validOk)
    \/ \E validOk \in BOOLEAN : createAlertAgain(validOk)
    \/ PipelineNext
    \/ onDispose

SpecCreate == Init /\ [][CreateNext]_vars

\* Alerts with one price condition, written with every operand string.
PriceAlerts ==
    {<<Condition("last", "gt", "AAPL", String(s))>> : s \in Strings}

\* createAlert resolving one price condition of a valid instrument.
PriceNext ==
    \/ ConnectOnce
    \/ caRuns = 0 /\ \E a \in PriceAlerts : createAlert(a, TRUE)
    \/ createFetch
    \/ catalogReply(TRUE)
    \/ \E b \in BaseCodes : lookupSettle(1, "ok", b)
    \/ resolveCondition(1)
    \/ createSubmit
    \/ createReply(TRUE)

SpecPrice == Init /\ [][PriceNext]_vars

\* Alerts passed to editAlert.
EditAlerts ==
    {a \in Alerts : \A i \in 1..Len(a) :
        a[i].symbol = "AAPL" /\ a[i].operator = "gt"}

\* editAlert against the answers of the adapter and of the instrument
\* service, and disposal.
EditNext ==
    \/ ConnectOnce
    \/ \E a \in EditAlerts, validOk \in BOOLEAN : editAlert(a, validOk)
    \/ \E validOk \in BOOLEAN : editDelete(validOk)
    \/ editDeleteCall
    \/ \E ok \in BOOLEAN : deleteReply(ok)
    \/ \E validOk \in BOOLEAN : editCreate(validOk)
    \/ PipelineNext
    \/ onDispose

SpecEdit == Init /\ [][EditNext]_vars

\* The operations invoked in TransNext: the transitions and, for contrast,
\* an operation that requests none.
TransOps == TransitionOps \cup {"deleteAlert"}

\* alert_state of the objects passed to them
TransArgStates == {"Inactive", "Active"}

\* Transition requests against subscriptions for change notifications and
\* disposal.
TransNext ==
    \/ ConnectOnce
    \/ \E key \in Keys : subscribeAlerts(key, TRUE, TRUE, FALSE)
    \/ \E h \in Handles : disposeAlertSubscription(h)
    \/ \E op \in TransOps, validOk \in BOOLEAN, argState \in TransArgStates :
            invoke(op, validOk, argState)
    \/ \E validOk \in BOOLEAN, key \in Keys \cup {NoKey} :
            continue(validOk, TRUE, key, 0)
    \/ \E ok \in BOOLEAN : reply(ok)
    \/ onDispose

SpecTrans == Init /\ [][TransNext]_vars

\* The notifications whose order is recorded.
OrderEvents == {"create", "change"}

\* Alert notifications for one key delivered in sequence against subscribe
\* calls for every key, disposals of handles and the disposal of the facade.
OrderNext ==
    \/ ConnectOnce
    \/ \E key \in Keys : subscribeAlerts(key, TRUE, TRUE, FALSE)
    \/ \E h \in Handles : disposeAlertSubscription(h)
    \/ \E event \in OrderEvents, key \in GateKeys : deliver("alert", event, key)
    \/ onDispose

SpecOrder == Init /\ [][OrderNext]_vars

\* getPropertyTree called on every list of properties, then called again.
TreeNext ==
    \/ treeCalls = 0 /\ \E properties \in PropertyLists, short \in BOOLEAN :
            callGetPropertyTree(properties, short)
    \/ callGetPropertyTreeAgain

SpecTree == Init /\ [][TreeNext]_vars

\* Operations with one adapter call, with several, and with lookups.
RetryOps == {"retrieveAlert", "createAlert", "editAlert", "enableAlerts",
             "checkSymbol"}

\* Connection attempts that succeed, fail and time out, and the operations
\* of the facade with adapter calls and lookups that succeed and fail.
RetryNext ==
    \/ ConnNext
    \/ \E op \in RetryOps : invoke(op, TRUE, "Inactive")
    \/ \E key \in GateKeys, symbols \in 0..MaxSymbols :
            continue(TRUE, TRUE, key, symbols)
    \/ \E ok \in BOOLEAN : reply(ok)

SpecRetry == Init /\ [][RetryNext]_vars

\* ------------------------------------------------------------------ claims

\* C1: for every key and kind, the adapter holds one open underlying
\* subscription when the entry's subscriber count is positive and none
\* otherwise.
C1_OpenIffSubscribers ==
    \A e \in EntryIds :
        /\ chOpen[e] = (IF subscribers[e] > 0 THEN 1 ELSE 0)
        /\ subscribers[e] = Cardinality(HandlesOf(e, "live"))

\* One entry is shared by two live handles over a single open subscription
\* while another entry has been opened and fully closed again.
C1_Witness ==
    \E e, f \in EntryIds :
        /\ e # f
        /\ subscribers[e] = 2 /\ chOpen[e] = 1
        /\ subscribers[f] = 0 /\ chOpen[f] = 0 /\ unsubCalls[f] = 1

\* C2: N >= 1 subscribe calls for a key followed by the disposal of the N
\* handles make exactly one adapter subscribe call, and exactly one dispose of
\* the underlying handle, which happens with the last disposal.
C2_OneSubscribeOneUnsubscribe ==
    \A e \in EntryIds :
        (IssuedOf(e) # {} /\ ~resub[e] /\ subThrows[e] = 0) =>
            /\ subCalls[e] = 1
            /\ unsubCalls[e] = (IF HandlesOf(e, "live") = {} THEN 1 ELSE 0)

\* Every handle was issued for one key, in one run of subscribe calls, and
\* all of them have been disposed.
C2_Witness ==
    \E e \in EntryIds :
        /\ Cardinality(IssuedOf(e)) = MaxHandles
        /\ HandlesOf(e, "live") = {}
        /\ ~resub[e] /\ subThrows[e] = 0
        /\ subCalls[e] = 1 /\ unsubCalls[e] = 1

\* C3: a push for key K and a notification kind invokes only callbacks that a
\* subscribe call for K registered for that kind of notification.
C3_OnlyCallbacksOfKey ==
    \A i \in DOMAIN fired.invoked :
        LET cb == fired.invoked[i] IN
        /\ hSt[cb.h] # "unused"
        /\ hEntry[cb.h] = <<fired.kind, fired.key>>
        /\ cb.cb = fired.event

\* A push invokes a callback while the other key and the other kind of the
\* same key have live subscribers too.
C3_Witness ==
    /\ fired.invoked # <<>>
    /\ \E k \in Keys : k # fired.key /\ HandlesOf(<<fired.kind, k>>, "live") # {}
    /\ \E kd \in Kinds : kd # fired.kind /\ HandlesOf(<<kd, fired.key>>, "live") # {}

RECURSIVE SetToSeq(_)
\* The elements of a set of handles in increasing order.
SetToSeq(S) ==
    IF S = {} THEN <<>>
    ELSE LET m == CHOOSE x \in S : \A y \in S : x <= y
         IN <<m>> \o SetToSeq(S \ {m})

\* The callbacks for event ev of the undisposed subscribe calls of entry e.
LiveCallbacks(e, ev) ==
    LET hs == SetToSeq(HandlesOf(e, "live"))
    IN [i \in 1..Len(hs) |-> Callback(hs[i], ev)]

\* C4: while the facade lives, a push for a key invokes exactly the callbacks
\* of the subscribe calls for that key whose handle has not been disposed:
\* none of a disposed handle, every one of the others.
C4_DisposeRemovesOwnCallbacks ==
    (fired.kind # "none" /\ fired.present /\ ~disposed) =>
        fired.invoked = LiveCallbacks(<<fired.kind, fired.key>>, fired.event)

\* A push reaches the callback of a live handle of an entry that also has a
\* disposed handle, the count not having reached zero.
C4_Witness ==
    /\ fired.kind # "none" /\ ~disposed
    /\ fired.invoked # <<>>
    /\ HandlesOf(<<fired.kind, fired.key>>, "disposed") # {}
    /\ unsubCalls[<<fired.kind, fired.key>>] = 0

\* C5: a push for a key without active subscribers invokes no callback and
\* raises no error.
C5_NoSubscribersDropped ==
    (fired.kind # "none" /\ fired.present
        /\ HandlesOf(<<fired.kind, fired.key>>, "live") = {}) =>
            /\ fired.invoked = <<>>
            /\ ~fired.threw

\* Attempts whose adapter has been constructed (adapter.connect issued).
Constructed == {a \in Attempts : adConn[a] # "none"}

\* C6: connect calls made while an attempt is in flight or has succeeded are
\* handed that attempt's promise: a later attempt exists only once the
\* earlier one was rejected, the adapters constructed are one more than the
\* rejected attempts at most, and each caller observes the outcome of the
\* promise it shares.
C6_ConnectIdempotent ==
    /\ \A c1, c2 \in Callers :
        (cAtt[c1] # 0 /\ cAtt[c1] < cAtt[c2]) => attSt[cAtt[c1]] = "rejected"
    /\ Cardinality(Constructed)
            <= 1 + Cardinality({a \in Attempts : attSt[a] = "rejected"})
    /\ \A c \in Callers :
        /\ cPc[c] = "resolved" => attSt[cAtt[c]] = "resolved"
        /\ (cPc[c] = "rejected" /\ cAtt[c] # 0) =>
                /\ attSt[cAtt[c]] = "rejected"
                /\ cErr[c] = Err(attErr[cAtt[c]], "connect")

\* Two callers resolved from one attempt, the only adapter constructed.
C6_Witness ==
    /\ \A c \in Callers : cPc[c] = "resolved"
    /\ \A c1, c2 \in Callers : cAtt[c1] = cAtt[c2]
    /\ Cardinality(Constructed) = 1

\* C7: once a caller has seen a connection failure (timeout or adapter
\* rejection), the memoized promise is no longer the failed one, and the
\* memoized promise is never one that has been rejected, so the next connect
\* starts a new attempt.
C7_FailureClearsPromise ==
    /\ \A c \in Callers :
        (cPc[c] = "rejected" /\ cErr[c].type \in {"timeout", "adapter"}) =>
            (connectPromise = 0 \/ connectPromise > cAtt[c])
    /\ connectPromise # 0 => attSt[connectPromise] # "rejected"

\* A caller saw a timeout and another caller's later connect issued a new
\* adapter.connect.
C7_Witness ==
    \E c1, c2 \in Callers :
        /\ cPc[c1] = "rejected" /\ cErr[c1].type = "timeout"
        /\ cAtt[c2] > cAtt[c1]
        /\ adConn[cAtt[c2]] # "none"

\* C8: an operation invoked while this._adapter is null rejects with the
\* not-connected (or disposed) error carrying its operation name and issues
\* no adapter call and no instrument lookup; a subscribe call made then
\* throws that error and leaves the subscription state alone.
C8_GateState ==
    (opSt # "idle" /\ ~opConnAtStart) =>
        /\ opSt = "rejected"
        /\ opErr.type \in {"notConnected", "disposed"}
        /\ opErr.op = Program(opName)[1].chk
        /\ opCalls = 0
        /\ opLookups = 0

C8_GateSubscribe ==
    (adapter = 0 /\ subResult'.type # "none") =>
        /\ subResult'.type \in {"notConnected", "disposed"}
        /\ subResult'.op \in {"subscribe alerts", "subscribe triggers"}
        /\ UNCHANGED subVars

\* C8: on a facade that is not connected, every operation is refused with an
\* error naming it (state part), and a refused subscribe call changes nothing
\* (step part).
C8_NotConnectedFails == [](C8_GateState) /\ [][C8_GateSubscribe]_vars

\* createAlert was refused before any connection was made.
C8_Witness ==
    /\ opName = "createAlert"
    /\ opSt = "rejected"
    /\ opErr = Err("notConnected", "create alert")
    /\ ~disposed

\* C9: connect on a disposed facade rejects at once; no promise is memoized,
\* no adapter constructed and no adapter.connect issued by it.
C9_Step ==
    \A c \in Callers :
        (disposed /\ cPc[c] = "idle" /\ cPc'[c] # "idle") =>
            /\ cPc'[c] = "rejected"
            /\ UNCHANGED <<connectPromise, attSt, adConn, adapter>>

\* C9: every step in which connect is called on a disposed facade rejects
\* that call and leaves the connection state untouched.
C9_DisposedConnectFails == [][C9_Step]_vars

\* connect was refused on a disposed facade that an earlier connect had
\* connected.
C9_Witness ==
    \E c1, c2 \in Callers :
        /\ cPc[c1] = "resolved"
        /\ cPc[c2] = "rejected" /\ cErr[c2] = Err("disposed", "connect")

\* C10 as stated: an operation started before the disposal, a continuation of
\* which ran after it, does not resolve and issues no adapter call after the
\* disposal.
C10_Original ==
    (opBeforeDispose /\ opRanAfterDispose) =>
        (opSt # "resolved" /\ ~opCallAfterDispose)

\* C10 amended: an operation started before the disposal issues no adapter
\* call after it, and is rejected once a continuation that checks the
\* connection, dispatches a notification or calls the adapter runs after it.
C10_NoCallAfterDispose ==
    /\ opBeforeDispose => ~opCallAfterDispose
    /\ (opBeforeDispose /\ opGatedAfterDispose) => opSt = "rejected"

\* createAlert passed its checks, the facade was disposed, and the
\* adapter.createAlert continuation failed on the null adapter.
C10_Witness ==
    /\ opName = "createAlert"
    /\ opBeforeDispose /\ opGatedAfterDispose
    /\ opPc = Len(Program("createAlert"))
    /\ opSt = "rejected" /\ opErr.type = "TypeError"
    /\ opCalls = 2

\* The unit code of the instrument condition i was resolved with.
UnitOf(i) ==
    convertBaseCodeToUnitCode(instrumentLookups[condLookup[i]].baseCode)

\* Condition i is one whose operand line 315 normalizes.
Normalized(i) == HasSymbolTarget(alert[i]) /\ IsPriceLiteral(alert[i])

\* The callback of condition i found a string no price can be read from.
ParseFailed(i) ==
    /\ condSt[i] = "failed"
    /\ instrumentLookups[condLookup[i]].st = "ok"
    /\ Normalized(i)
    /\ IsString(alert[i].operand)
    /\ ~IsNumber(valueParser(operandToParse(alert[i].operand), UnitOf(i)))

\* C11: once a condition of the candidate alert has failed its resolution,
\* whatever its position and whatever the other conditions did, the call is
\* rejected and adapter.createAlert has not been invoked for it.
C11_AllOrNothing ==
    (\E i \in 1..Len(condSt) : condSt[i] = "failed") =>
        caPc = "rejected" /\ caCalls.createAlert = 0

\* A later condition failed on its operand after an earlier one, of another
\* symbol, had resolved; and the other way round for the lookups.
C11_Witness ==
    /\ Len(condSt) = 2
    /\ condSt = <<"ok", "failed">>
    /\ alert[1].symbol # alert[2].symbol
    /\ alert[1].operand_display # Undefined
    /\ caErr.type = "parse"

\* C12: the lookups one createAlert call issues are one per distinct symbol
\* among its conditions with a symbol target, and the conditions of one
\* symbol are chained on one and the same lookup.
C12_OneLookupPerSymbol ==
    condSt # <<>> =>
        /\ Len(instrumentLookups) =
              Cardinality({alert[i].symbol :
                              i \in {j \in 1..Len(alert) : HasSymbolTarget(alert[j])}})
        /\ \A i \in 1..Len(alert) :
              IF HasSymbolTarget(alert[i])
              THEN /\ condLookup[i] \in 1..Len(instrumentLookups)
                   /\ instrumentLookups[condLookup[i]].symbol = alert[i].symbol
                   /\ \A j \in 1..Len(alert) :
                         (HasSymbolTarget(alert[j])
                             /\ alert[j].symbol = alert[i].symbol)
                         => condLookup[j] = condLookup[i]
              ELSE condLookup[i] = 0

\* Two conditions of one symbol were resolved from a single lookup.
C12_Witness ==
    /\ Len(alert) = 2
    /\ HasSymbolTarget(alert[1]) /\ HasSymbolTarget(alert[2])
    /\ alert[1].symbol = alert[2].symbol
    /\ Len(instrumentLookups) = 1
    /\ condSt = <<"ok", "ok">>

\* C13: an error that says a price cannot be parsed carries the 0-indexed
\* position of a condition whose operand is unparseable, never that of a
\* condition that resolved; and when unparseable operands are the only
\* failures, the call is rejected with such an error.
C13_ParseErrorIndex ==
    /\ (caPc = "rejected" /\ caErr.type = "parse") =>
          /\ caErr.index \in 0..(Len(alert) - 1)
          /\ ParseFailed(caErr.index + 1)
    /\ ((\E i \in 1..Len(condSt) : condSt[i] = "failed")
          /\ \A i \in 1..Len(condSt) : condSt[i] = "failed" => ParseFailed(i))
       => caPc = "rejected" /\ caErr.type = "parse"

\* The second of two conditions that share a lookup was unparseable, the
\* first resolved, and the error names position 1.
C13_Witness ==
    /\ Len(alert) = 2
    /\ condSt = <<"ok", "failed">>
    /\ condLookup[1] = condLookup[2]
    /\ Normalized(1)
    /\ caErr.type = "parse" /\ caErr.index = 1

\* C14: every resolution error (unparseable operand, invalid instrument)
\* carries the index of the condition that failed.
C14_ErrorsNameCondition ==
    (caPc = "rejected" /\ caErr.type \in {"parse", "instrument"}) =>
        /\ caErr.index \in 0..(Len(alert) - 1)
        /\ condSt[caErr.index + 1] = "failed"

\* C15: a call rejected by the validator has fetched no catalog, looked up
\* no instrument and has not called adapter.createAlert.
C15_ValidatesFirst ==
    (caPc = "rejected" /\ caErr.type = "validation") =>
        /\ caCalls.getProperties = 0
        /\ caCalls.getOperators = 0
        /\ caCalls.createAlert = 0
        /\ instrumentLookups = <<>>

\* The validator refused an alert on a connected facade.
C15_Witness ==
    /\ caPc = "rejected" /\ caErr.type = "validation"
    /\ adapter # 0
    /\ alert # <<>>

\* The three operand fields of condition i agree with the operand the alert
\* was written with, for an instrument of unit code u.
OperandsConsistent(i, u) ==
    /\ alert[i].operand_display = supplied[i]
    /\ alert[i].operand = valueParser(operandToParse(supplied[i]), u)
    /\ IsNumber(alert[i].operand)
    /\ alert[i].operand_format = String(formatPrice(alert[i].operand, u))

\* C16: after a successful createAlert every condition with a price property
\* and a literal numeric operand has operand_display the operand supplied,
\* operand the price parsed from it and operand_format the formatting of
\* that price; and whatever calls the alert object has been passed to, a
\* condition that has been given these fields has them consistent.
C16_OperandFields ==
    /\ caPc = "resolved" =>
          \A i \in 1..Len(alert) :
              Normalized(i) => OperandsConsistent(i, UnitOf(i))
    /\ \A i \in 1..Len(alert) :
          alert[i].operand_display # Undefined =>
              \E u \in UnitCodes : OperandsConsistent(i, u)

\* An alert written with "1,2" was created for an instrument with two
\* decimals; a second createAlert with the same object has run since.
C16_Witness ==
    /\ caRuns = 2
    /\ caPc = "rejected" /\ caErr.type = "TypeError"
    /\ \E i \in 1..Len(alert) :
          /\ supplied[i] = String(<<"1", ",", "2">>)
          /\ alert[i].operand_display = supplied[i]
          /\ alert[i].operand = Number(12000)
          /\ alert[i].operand_format = String(<<"1", "2", ".", "0", "0">>)

\* The decimal string of an integer written with separators: "1,2" -> "12.0"
CanonicalDecimal(s) == RemoveSeparators(s) \o <<".", "0">>

\* C17: what the parser is given is the operand with ".0" appended when it
\* is an integer with separators and the operand itself otherwise; such an
\* integer and its canonical decimal string yield the same price.
C17_NormalizationIdempotent ==
    (condSt # <<>> /\ condSt[1] # "waiting") =>
        LET s == supplied[1].val
            given == IF MatchesInteger(s) THEN s \o <<".", "0">> ELSE s
            price == valueParser(String(given), UnitOf(1))
        IN /\ condSt[1] = "ok" =>
                IsNumber(price) /\ alert[1].operand = price
           /\ condSt[1] = "failed" => ~IsNumber(price)
           /\ MatchesInteger(s) =>
                /\ condSt[1] = "ok"
                /\ alert[1].operand =
                      valueParser(operandToParse(String(CanonicalDecimal(s))),
                                  UnitOf(1))

\* "1,2" was parsed as the price 12 for an instrument with two decimals.
C17_Witness ==
    /\ condSt = <<"ok">>
    /\ supplied[1] = String(<<"1", ",", "2">>)
    /\ UnitOf(1) = "A"
    /\ alert[1].operand = Number(12000)

\* Steps of the create taken by the current call.
CreateSteps ==
    caCalls.getProperties + caCalls.getOperators + caCalls.createAlert
        + Len(instrumentLookups)

\* C18: in an editAlert call the create starts only after adapter.deleteAlert
\* was issued and resolved; a call rejected before that has attempted no
\* create; a call rejected in the create leaves the alert deleted, with no
\* other adapter call than the one delete.
C18_DeleteThenCreate ==
    /\ (edPc # "idle" /\ (CreateSteps > 0 \/ edPc = "creating")) =>
          /\ edPc = "creating"
          /\ caCalls.deleteAlert = 1
          /\ exists => caPc = "resolved"
    /\ edPc = "rejected" => (CreateSteps = 0 /\ caPc = "idle")
    /\ (edPc = "rejected" /\ edErr.type = "transport") =>
          (exists /\ caCalls.deleteAlert = 1)
    /\ (edPc = "creating" /\ caPc = "rejected") =>
          (~exists /\ caCalls.deleteAlert = 1 /\ caCalls.createAlert <= 1)

\* The delete succeeded and the create failed on an unparseable operand.
C18_Witness ==
    /\ edPc = "creating"
    /\ caPc = "rejected" /\ caErr.type = "parse"
    /\ ~exists

\* The second continuation of enableAlert or disableAlert runs in this step.
TransitionStep ==
    /\ opSt = "ready"
    /\ opName \in {"enableAlert", "disableAlert"}
    /\ opPc = 2
    /\ opSt' # "ready"

\* C19 as stated: every enableAlert or disableAlert call that passed its
\* checks invokes the change callbacks subscribed for the alert's owner and
\* namespace with the requested state, before the adapter call resolves.
C19_Original ==
    [][TransitionStep =>
        /\ fired'.kind = "alert" /\ fired'.event = "change"
        /\ fired'.key \in Keys
        /\ ~fired'.threw
        /\ fired'.invoked = observers[<<"alert", fired'.key>>]["change"]
        /\ TransitionState(opName) \in opNotified'
        /\ opSt' = "awaiting"]_vars

\* C19 amended, step part: on a facade not disposed since the checks, the
\* notification with the requested state goes through onAlertMutated to the
\* change callbacks of the key the argument carries (to none when it carries
\* none) in the step that issues adapter.updateAlert; on a facade disposed
\* since, the dispatch throws, nothing is invoked or called and the call is
\* rejected.
C19_Step ==
    TransitionStep =>
        /\ TransitionState(opName) \in opNotified'
        /\ IF mapNull["alert"]
           THEN /\ fired'.threw
                /\ fired'.invoked = <<>>
                /\ opSt' = "rejected"
                /\ opCalls' = opCalls
           ELSE /\ fired'.kind = "alert" /\ fired'.event = "change"
                /\ ~fired'.threw
                /\ fired'.invoked =
                      IF fired'.key \in Keys
                      THEN observers[<<"alert", fired'.key>>]["change"]
                      ELSE <<>>
                /\ opSt' = "awaiting"
                /\ opCalls' = opCalls + 1

\* C19 amended, state part: an enableAlert or disableAlert call whose adapter
\* call has resolved has dispatched its notification before.
C19_State ==
    (opName \in {"enableAlert", "disableAlert"} /\ opSt = "resolved") =>
        opNotified = {TransitionState(opName)}

\* C19 amended: the local notification of enableAlert and disableAlert
\* precedes the adapter call and reaches the change callbacks of the key the
\* argument carries, unless the facade was disposed after the checks.
C19_LocalNotification == [](C19_State) /\ [][C19_Step]_vars

\* enableAlert has notified a change callback with "Starting" and awaits
\* adapter.updateAlert.
C19_Witness ==
    /\ opName = "enableAlert"
    /\ opSt = "awaiting"
    /\ opNotified = {"Starting"}
    /\ fired.event = "change"
    /\ fired.invoked # <<>>

\* C20, state part: the alert_state values an operation has written into
\* notifications and adapter payloads are "Starting" for enableAlert and
\* enableAlerts, "Stopping" for disableAlert and disableAlerts, none for
\* another operation, and the batch operations notify nothing.
C20_State ==
    /\ opNotified \subseteq {"Starting", "Stopping"}
    /\ opSent \subseteq {"Starting", "Stopping"}
    /\ opName \in {"enableAlert", "enableAlerts"} =>
          (opNotified \subseteq {"Starting"} /\ opSent \subseteq {"Starting"})
    /\ opName \in {"disableAlert", "disableAlerts"} =>
          (opNotified \subseteq {"Stopping"} /\ opSent \subseteq {"Stopping"})
    /\ opName \notin TransitionOps => (opNotified = {} /\ opSent = {})
    /\ opName \in {"enableAlerts", "disableAlerts"} => opNotified = {}

\* C20, step part: no continuation of an operation changes the alert_state
\* of the object the caller passed.
C20_Step == opSt \in {"ready", "awaiting"} => opArgState' = opArgState

C21_RegistrationOrder ==
    /\ \A i, j \in DOMAIN fired.invoked :
            i < j => fired.invoked[i].h < fired.invoked[j].h
    /\ (fired.kind # "none" /\ fired.present /\ ~disposed) =>
            {fired.invoked[i].h : i \in DOMAIN fired.invoked}
                = HandlesOf(<<fired.kind, fired.key>>, "live")

\* A notification invokes the callbacks of the first and the last subscribe
\* call of a key, in that order, the call between them having been undone.
C21_Witness ==
    /\ Len(fired.invoked) = 2
    /\ fired.invoked[1].h = 1
    /\ fired.invoked[2].h = MaxHandles
    /\ \E h \in Handles :
            /\ hSt[h] = "disposed"
            /\ hEntry[h] = <<fired.kind, fired.key>>

\* The notifications delivered for the entry of handle h while h was
\* undisposed.
DeliveredTo(h) ==
    {n \in DOMAIN pushed :
        /\ <<pushed[n].kind, pushed[n].key>> = hEntry[h]
        /\ h \in pushed[n].live}

\* C22: for a key and a kind of notification, the callbacks of a subscribe
\* call observe the notifications in the order in which the transport
\* delivered them: none twice and none out of order, none that was not
\* delivered for their key while they were registered, and, of those
\* delivered while the facade lived, every one.
C22_DeliveredInOrder ==
    \A h \in Handles :
        LET seen == {received[h][i] : i \in DOMAIN received[h]} IN
        /\ \A i, j \in DOMAIN received[h] :
                i < j => received[h][i] < received[h][j]
        /\ seen \subseteq DeliveredTo(h)
        /\ {n \in DeliveredTo(h) : ~pushed[n].disposed} \subseteq seen

\* Three notifications of two kinds were delivered for one key: the callbacks
\* of one subscribe call observed all three, those of a call made after the
\* first delivery the last two.
C22_Witness ==
    /\ Len(pushed) = MaxPushes
    /\ pushed[1].event # pushed[2].event
    /\ \E h, g \in Handles :
            /\ received[h] = <<1, 2, 3>>
            /\ received[g] = <<2, 3>>

RECURSIVE SiblingsOrdered(_)
\* Below the node, no two siblings have the same description, and siblings
\* stand in ascending sort order, those of equal sort order in the order of
\* their descriptions.
SiblingsOrdered(node) ==
    /\ \A i, j \in DOMAIN node.items :
        i < j =>
            LET a == node.items[i]
                b == node.items[j]
            IN /\ a.description # b.description
               /\ \/ a.sortOrder < b.sortOrder
                  \/ /\ a.sortOrder = b.sortOrder
                     /\ localeCompare(a.description, b.description) < 0
    /\ \A k \in DOMAIN node.items : SiblingsOrdered(node.items[k])

RECURSIVE PathsOf(_, _)
\* The paths of descriptions that lead from the node to the nodes below it.
PathsOf(node, prefix) ==
    UNION {{Append(prefix, node.items[k].description)}
                \cup PathsOf(node.items[k],
                             Append(prefix, node.items[k].description)) :
           k \in DOMAIN node.items}

RECURSIVE NodeAt(_, _, _)
\* The node a path of descriptions leads to, from segment i on.
NodeAt(node, path, i) ==
    IF i > Len(path) THEN node
    ELSE NodeAt(node.items[CHOOSE k \in DOMAIN node.items :
                                node.items[k].description = path[i]],
                path, i + 1)

\* The paths of the properties of the last call and their prefixes.
PropertyPaths ==
    UNION {{SubSeq(descriptionPath(treeProperties[i], treeShort), 1, n) :
                n \in 1..Len(descriptionPath(treeProperties[i], treeShort))} :
           i \in DOMAIN treeProperties}

\* The tree the last call returned, under one node.
Returned == [root EXCEPT !.items = tree.items]

\* The result of a call: one node for each path prefix of the properties,
\* so that properties sharing a prefix share the nodes of the prefix; the
\* siblings of every level distinct and ordered; each property found as the
\* item of the node of its path unless a later property has the same path;
\* the sort order of a node that of the first property that passes it.
C23_State ==
    treeCalls >= 1 =>
        /\ SiblingsOrdered(Returned)
        /\ PathsOf(Returned, <<>>) = PropertyPaths
        /\ tree.defined = (PropertyPaths # {})
        /\ \A i \in DOMAIN treeProperties :
            LET path == descriptionPath(treeProperties[i], treeShort)
                later == {j \in DOMAIN treeProperties :
                            /\ j > i
                            /\ descriptionPath(treeProperties[j], treeShort)
                                    = path}
            IN (path # <<>> /\ later = {}) =>
                    NodeAt(Returned, path, 1).item = <<treeProperties[i]>>
        /\ \A path \in PropertyPaths :
            LET through == {j \in DOMAIN treeProperties :
                    /\ Len(descriptionPath(treeProperties[j], treeShort))
                            >= Len(path)
                    /\ SubSeq(descriptionPath(treeProperties[j], treeShort),
                              1, Len(path)) = path}
                first == CHOOSE j \in through : \A k \in through : j <= k
            IN NodeAt(Returned, path, 1).sortOrder
                    = treeProperties[first].sortOrder

\* A repeated call on the same list returns what the call before returned
\* and leaves the list as it was.
C23_Step ==
    (treeCalls >= 1 /\ treeCalls' = treeCalls + 1) =>
        /\ tree' = tree
        /\ treeProperties' = treeProperties

\* C23: getPropertyTree builds, for every flat list of properties, a tree in
\* which properties sharing a category-path prefix share the same ancestor
\* nodes (no two sibling nodes have the same description) and in which the
\* sibling nodes of every level are ordered by numeric sort order, with the
\* comparison of the descriptions as tie-break; the result is the same for
\* every call on the same list.
C23_PropertyTree == [](C23_State) /\ [][C23_Step]_vars

\* The list (A/X, sort order 2), (A/Y, sort order 1) was passed twice: one
\* node A with the children Y, X in that order.
C23_Witness ==
    /\ treeCalls = MaxTreeCalls
    /\ ~treeShort
    /\ Len(treeProperties) = 2
    /\ treeProperties[1].category = <<"A">>
    /\ treeProperties[1].description = "X"
    /\ treeProperties[1].sortOrder = 2
    /\ treeProperties[2].category = <<"A">>
    /\ treeProperties[2].description = "Y"
    /\ treeProperties[2].sortOrder = 1
    /\ Len(tree.items) = 1
    /\ tree.items[1].description = "A"
    /\ [k \in DOMAIN tree.items[1].items |->
            tree.items[1].items[k].description] = <<"Y", "X">>

\* The disposal of the facade leaves no adapter handle, has the adapter it
\* held disposed once, and leaves neither subscription map.
C24_Step ==
    (~disposed /\ disposed') =>
        /\ adapter' = 0
        /\ adapter # 0 => adDisposed'[adapter] = 1
        /\ mapNull'["alert"]
        /\ mapNull'["trigger"]

\* C24: disposing the facade releases both resources it owns: the adapter
\* handle is disposed exactly once and cleared, and both the alert
\* subscription map and the trigger subscription map are released.
C24_DisposeReleasesBoth == [][C24_Step]_vars

\* The count of a key is never negative, its underlying subscription has
\* been closed no more often than it was opened, and it is open while a
\* subscribe call for the key is undisposed.
C25_State ==
    \A e \in EntryIds :
        /\ subscribers[e] >= 0
        /\ unsubCalls[e] <= subCalls[e] - subThrows[e]
        /\ HandlesOf(e, "live") # {} => (bindingOpen[e] /\ chOpen[e] = 1)

\* The dispose of a handle that had been disposed before changes nothing.
C25_Step == redisposed' => UNCHANGED subVars

CallSteps ==
    IF opName = "none" THEN {}
    ELSE {k \in 1..opPc : Program(opName)[k].call # ""}

\* C26: the facade never retries on its own: every adapter call made for an
\* operation is issued at most once per invocation, the failure of an adapter
\* call or of a connection attempt surfaces as a rejection, and an attempt
\* (its adapter and its adapter.connect) exists only for a connect call of a
\* caller that started or joined it, a later one only after the earlier one
\* was rejected.
C26_NoRetry ==
    /\ opCalls <= Cardinality(CallSteps)
    /\ opErr.type = "rejected" => (opSt = "rejected" /\ opPending = 0)
    /\ \A a \in Attempts :
        (attSt[a] # "none" \/ adConn[a] # "none") =>
            /\ \E c \in Callers : cAtt[c] = a
            /\ \A b \in Attempts : b < a => attSt[b] = "rejected"
    /\ \A c \in Callers :
        (cPc[c] = "resolved") => attErr[cAtt[c]] = "none"

\* The first attempt timed out and its caller was rejected; the second
\* caller's attempt succeeded, and createAlert was then rejected by the
\* failure of its last adapter call, after three adapter calls.
C26_Witness ==
    /\ \E c \in Callers : cPc[c] = "rejected" /\ cErr[c].type = "timeout"
    /\ \E c \in Callers : cPc[c] = "resolved" /\ cAtt[c] = MaxAttempts
    /\ opName = "createAlert"
    /\ opSt = "rejected"
    /\ opErr.type = "rejected"
    /\ opCalls = Cardinality(CallSteps)
    /\ opCalls > 1

\* C27: in createAlert the conditions are resolved in parallel and then
\* joined: once adapter.createAlert has been invoked for the call, every
\* instrument lookup issued for the alert has completed with an instrument
\* and every condition has passed validation and normalization; it is never
\* invoked while a lookup of the call is pending.
C27_JoinBeforeSubmit ==
    caCalls.createAlert > 0 =>
        /\ \A k \in 1..Len(instrumentLookups) : instrumentLookups[k].st = "ok"
        /\ \A i \in 1..Len(condSt) : condSt[i] = "ok"

\* adapter.createAlert was invoked for an alert of two conditions on two
\* symbols, after both lookups.
C27_Witness ==
    /\ caCalls.createAlert = 1
    /\ caPc = "submitting"
    /\ Len(instrumentLookups) = 2
    /\ condSt = <<"ok", "ok">>
    /\ condLookup[1] # condLookup[2]

\* C28: once the facade has been disposed, its adapter handle is null in
\* every later state and no adapter is left connected without having been
\* disposed; a connect attempt in flight at the disposal that completes
\* afterwards installs no adapter.
C28_AdapterStaysNull ==
    disposed =>
        /\ adapter = 0
        /\ \A a \in Attempts : adConn[a] = "connected" => adDisposed[a] >= 1

\* C29: after the facade has been disposed, a push notification of any kind
\* invokes no registered callback and raises no error, even if handles
\* returned by earlier subscribe calls were never disposed.
C29_PushAfterDisposeSilent ==
    (fired.kind # "none" /\ disposed) =>
        /\ fired.invoked = <<>>
        /\ ~fired.threw

\* The adapter installed is never that of an attempt that timed out, and a
\* timed-out attempt stays failed; an operation invoked on the facade while
\* it lives without adapter is rejected as not connected.
C30_State ==
    /\ \A a \in Attempts :
        attErr[a] = "timeout" =>
            /\ adapter # a
            /\ attSt[a] \in {"failed", "rejected"}
    /\ adapter # 0 => (attSt[adapter] = "resolved" /\ attErr[adapter] = "none")
    /\ (opSt # "idle" /\ ~opConnAtStart /\ opBeforeDispose) =>
            /\ opSt = "rejected"
            /\ opErr.type = "notConnected"
            /\ opCalls = 0

\* The late completion of the adapter.connect of a timed-out attempt changes
\* neither the adapter handle nor the memoized promise, nor any attempt or
\* caller.
C30_Step ==
    \A a \in Attempts :
        (attErr[a] = "timeout" /\ adConn[a] = "pending"
            /\ adConn'[a] = "connected") =>
                UNCHANGED <<adapter, connectPromise, attSt, attErr, cPc, cAtt,
                            cErr>>

\* C30: after a connect attempt has failed by timeout, a late completion of
\* its adapter.connect has no effect: the facade stays not connected
\* (adapter handle null, operations rejected as not connected) until a later
\* connect call succeeds, and the late completion does not replace the
\* adapter of a retry in flight or succeeded.
C30_LateCompletionIgnored == [](C30_State) /\ [][C30_Step]_vars

\* The first attempt timed out and an operation was refused as not connected;
\* the retry succeeded and holds the adapter handle, the first attempt's
\* adapter.connect having completed late.
C30_Witness ==
    /\ attErr[1] = "timeout"
    /\ adConn[1] = "connected"
    /\ adapter = MaxAttempts
    /\ opSt = "rejected"
    /\ opErr.type = "notConnected"
    /\ ~disposed

\* A subscribe call that throws registers no callback, returns no handle,
\* changes no subscriber count and opens no underlying subscription.
C31_Step ==
    subResult'.type \notin {"none", "ok"} =>
        /\ observers' = observers
        /\ subscribers' = subscribers
        /\ hSt' = hSt
        /\ chOpen' = chOpen
        /\ bindingOpen' = bindingOpen
        /\ unsubCalls' = unsubCalls

\* C31: a subscribeAlerts or subscribeTriggers call that fails (facade not
\* connected or disposed, invalid query, missing callback, or the adapter's
\* subscribe throwing) registers no callback, leaves every subscriber count
\* unchanged and leaves no underlying subscription open that was not open
\* before the call.
C31_FailedSubscribeNoEffect == [][C31_Step]_vars

\* The adapter threw on the first subscribe call of a key, which has no
\* subscriber, no callback and no open subscription, while another entry has
\* subscribers.
C31_Witness ==
    /\ subResult.type = "adapter"
    /\ \E e, f \in EntryIds :
        /\ subThrows[e] = 1
        /\ subscribers[e] = 0
        /\ chOpen[e] = 0
        /\ \A ev \in Events(e[1]) : observers[e][ev] = <<>>
        /\ subscribers[f] > 0

\* The count, the callbacks or the underlying subscription of an entry change
\* in a step only when a handle of that very entry (its kind and its key) is
\* returned or disposed in the step.
C32_Step ==
    \A e \in EntryIds :
        (\/ subscribers'[e] # subscribers[e]
         \/ observers'[e] # observers[e]
         \/ chOpen'[e] # chOpen[e]
         \/ bindingOpen'[e] # bindingOpen[e]
         \/ subCalls'[e] # subCalls[e]
         \/ unsubCalls'[e] # unsubCalls[e]) =>
            /\ \E h \in Handles : hSt'[h] # hSt[h] /\ hEntry'[h] = e
            /\ \A h \in Handles : hSt'[h] # hSt[h] => hEntry'[h] = e

\* A notification of one kind invokes callbacks of subscribe calls of that
\* kind only.
C32_State ==
    \A i \in DOMAIN fired.invoked :
        hEntry[fired.invoked[i].h][1] = fired.kind

\* C32: alert subscriptions and trigger subscriptions for the same key are
\* independent: subscribing to or unsubscribing from one kind never changes
\* the subscriber count, the registered callbacks or the open or closed
\* status of the underlying subscription of the other kind, and an alert
\* notification never reaches a trigger callback or the other way round.
C32_KindsIndependent == [](C32_State) /\ [][C32_Step]_vars

\* For one key the alert subscription was opened and closed again while the
\* trigger subscription stayed open with its subscriber, whose callback a
\* trigger notification then reached.
C32_Witness ==
    /\ fired.kind = "trigger"
    /\ Len(fired.invoked) = 1
    /\ subscribers[<<"trigger", fired.key>>] = 1
    /\ chOpen[<<"trigger", fired.key>>] = 1
    /\ subCalls[<<"alert", fired.key>>] = 1
    /\ unsubCalls[<<"alert", fired.key>>] = 1
    /\ subscribers[<<"alert", fired.key>>] = 0

\* C33: a createAlert call that rejects leaves the caller's alert object
\* unchanged: no condition's operand, operand_display or operand_format has
\* been modified, neither at the moment of the rejection nor afterwards by
\* lookups of the call that were pending when it rejected. (Stated for the
\* first call an alert object is passed to, whose conditions are then as the
\* caller wrote them.)
C33_RejectedLeavesAlert ==
    (caPc = "rejected" /\ caRuns = 1) =>
        \A i \in 1..Len(alert) :
            /\ alert[i].operand = supplied[i]
            /\ alert[i].operand_display = Undefined
            /\ alert[i].operand_format = Undefined

====
